---- MODULE Spec2Model ----
(***************************************************************************)
(* Benchmark harness of challenge_utils: ScriptRunner.process_directory    *)
(* walking problems / languages / candidate files, ScriptRunner.run_script *)
(* supervising one candidate, ScriptRunner._record_result accumulating the *)
(* per-problem samples and ResultsProcessor.generate_table aggregating     *)
(* them into the summary table.                                            *)
(***************************************************************************)
EXTENDS Integers, Sequences, FiniteSets, TLC

VARIABLES
    pc,                 \* position of the single orchestrating thread
    iteration,          \* process_directory: iterations started so far
    pidx,               \* process_directory: index into problems_to_run
    lidx,               \* process_directory: index into supported_languages
    pending,            \* process_directory: glob results not yet visited
    file_path,          \* run_script: the candidate being run
    process,            \* run_script: the Popen object ("none", "running", "exited", "killed")
    returncode,         \* run_script: process.returncode (None until the child exits)
    peak_memory,        \* run_script: value returned by monitor_memory_usage
    exc,                \* run_script: exception in flight ("none" when there is none)
    result,             \* run_script: return value (None or the result tuple)
    cleanup_files,      \* run_script: artifacts registered for removal
    compile_ms,         \* run_script: ms between start_time and the launch of the run process
    times_taken,        \* ScriptRunner.times_taken
    peak_memory_usage,  \* ScriptRunner.peak_memory_usage
    file_info,          \* ScriptRunner.file_info
    key_order,          \* ScriptRunner.times_taken: its keys in insertion order
    calls,              \* history: number of run_script calls made so far
    compiles,           \* history: compile processes started for this candidate
    compile_failed,     \* history: the compile command of this candidate exited non-zero
    launches,           \* history: run processes started for this candidate
    before,             \* history: the three record maps when run_script was called
    run_ms,             \* history: ms between the launch of the run process and its end
    term_requested,     \* history: process.terminate() was called for this candidate
    wait_expired,       \* history: process.wait(timeout=5) raised TimeoutExpired
    killed,             \* history: process.kill() was called for this candidate
    warnings,           \* history: artifacts whose removal failed and was reported
    day,                \* history: totals of the current problem in this iteration
    want_times,         \* history: per problem, one summed time per successful iteration
    want_mems,          \* history: per problem, one maximal peak per successful iteration
    want_info,          \* history: per problem, summed lines and size of its first successful iteration
    lingering,          \* operating system: killed children that have not died yet
    disk,               \* operating system: compiled artifacts present on disk
    args,               \* generate_table: the record maps it is handed
    df,                 \* generate_table: the rows it returns (None before the call)
    table_lines,        \* ResultsProcessor.table_lines
    gt_calls,           \* history: generate_table calls made on this ResultsProcessor
    gt_prev,            \* history: rows and table_lines of the previous generate_table call
    child,              \* monitor_memory_usage: the child ("alive", "zombie", "reaped")
    child_rss,          \* monitor_memory_usage: resident memory of the child now (MB)
    mm_process,         \* monitor_memory_usage: psutil.Process(process.pid), or "none"
    mm_peak,            \* monitor_memory_usage: its local peak_memory
    mm_ret,             \* monitor_memory_usage: the value it returned (None before)
    seen,               \* history: the samples monitor_memory_usage has read
    polls,              \* history: process.poll() calls made by monitor_memory_usage
    config_data,        \* ChallengeConfig.config_data: the fields of the loaded document
    cfg_error,          \* the exception a ChallengeConfig call ended with ("none" when none)
    last_run,           \* history: the run_script call made last
    input_exists,       \* file system: the problem's input text file is there
    input_file,         \* run_script: its input_file argument ("none" for None)
    run_cmd,            \* run_script: the command handed to Popen
    cfg_files,          \* load_config: its arguments and the two files on disk
    loaded,             \* load_config: the document it returned ("none" before)
    own,                \* history: the records one analyze call collected by itself
    analyze_calls,      \* history: analyze calls started on this ChallengeBenchmarks
    pipe,               \* operating system: chunks in the child's output pipe
    unwritten,          \* child: chunks of output it has still to write
    fs,                 \* file system: the problem folder and the files in it
    sb_args,            \* create_files: its arguments
    sb_error,           \* create_files: the exception it ended with ("none" when none)
    sb_calls,           \* history: create_files calls made
    sb_prev             \* history: the file system as the first create_files call left it

vars == <<pc, iteration, pidx, lidx, pending, file_path, process, returncode,
          peak_memory, exc, result, cleanup_files, compile_ms, times_taken,
          peak_memory_usage, file_info, key_order, calls, compiles,
          compile_failed, launches, before, run_ms, term_requested,
          wait_expired, killed, warnings, day, want_times, want_mems,
          want_info, lingering, disk, args, df, table_lines, gt_calls,
          gt_prev, child, child_rss, mm_process, mm_peak, mm_ret, seen, polls,
          config_data, cfg_error, last_run, input_exists, input_file, run_cmd,
          cfg_files, loaded, own, analyze_calls, pipe, unwritten, fs,
          sb_args, sb_error, sb_calls, sb_prev>>

walker == <<iteration, pidx, lidx, pending>>
records == <<times_taken, peak_memory_usage, file_info, key_order>>
runlocals == <<file_path, process, returncode, peak_memory, exc, result,
               cleanup_files, compile_ms>>
ending == <<run_ms, term_requested, wait_expired, killed, warnings>>
perrun == <<compiles, compile_failed, launches, before, ending>>
periter == <<day, want_times, want_mems, want_info>>
os == <<lingering, disk>>
table == <<args, df, table_lines, gt_calls, gt_prev>>
monitor == <<child, child_rss, mm_process, mm_peak, mm_ret, seen, polls>>
cfg == <<config_data, cfg_error>>
command == <<input_exists, input_file, run_cmd>>
loading == <<cfg_files, loaded>>
analysis == <<own, analyze_calls>>
piping == <<pipe, unwritten>>
builder == <<fs, sb_args, sb_error, sb_calls, sb_prev>>
others == <<command, loading, analysis, piping, builder>>
aside == <<monitor, cfg, others>>

\* Python's None, for the variables that hold a record otherwise.
None == [none |-> TRUE]

\* process.returncode: <<>> while the child has not been reaped, <<code>> after.
NoCode == <<>>
Code(c) == <<c>>

-----------------------------------------------------------------------------
(* Bounds of the model. *)

Iterations == 2

\* Killed children that may still be alive at one time.
MaxLingering == 1

-----------------------------------------------------------------------------
(* Strings are sequences of characters, so that suffix, lower() and        *)
(* startswith() are computed as Python computes them.                      *)

Max(a, b) == IF a >= b THEN a ELSE b

UpperToLower ==
    [c \in {"A", "C", "P", "T", "X", "Y"} |->
        CASE c = "A" -> "a" [] c = "C" -> "c" [] c = "P" -> "p"
          [] c = "T" -> "t" [] c = "X" -> "x" [] c = "Y" -> "y"]

LowerChar(c) == IF c \in DOMAIN UpperToLower THEN UpperToLower[c] ELSE c

Lower(s) == [i \in 1..Len(s) |-> LowerChar(s[i])]

StartsWith(s, prefix) ==
    /\ Len(s) >= Len(prefix)
    /\ SubSeq(s, 1, Len(prefix)) = prefix

\* pathlib's Path.suffix: the last dot of the name and what follows it, unless
\* that dot starts or ends the name.
PathSuffix(name) ==
    LET dots == {i \in 1..Len(name) : name[i] = "."}
        last == CHOOSE i \in dots : \A j \in dots : j <= i
    IN  IF dots = {} THEN <<>>
        ELSE IF last = 1 \/ last = Len(name) THEN <<>>
        ELSE SubSeq(name, last, Len(name))

-----------------------------------------------------------------------------
(* Language registry (Language_Support). *)

\* A list that names an extension the registry has no entry for.
SupportedWithUnregistered ==
    << <<"p","y">>, <<"j","l">>, <<"r","b">>, <<"j","s">>, <<"c">>,
       <<"r","s">>, <<"j","a","v","a">>, <<"c","p","p">>, <<"h","s">>,
       <<"n","i","m">> >>

supported_languages ==
    << <<"p","y">>, <<"j","l">>, <<"r","b">>, <<"j","s">>, <<"c">>,
       <<"r","s">>, <<"j","a","v","a">>, <<"c","p","p">>, <<"h","s">>,
       <<"g","o">> >>

\* Extensions that carry a 'compile' command.
CompiledExts ==
    { <<".","c">>, <<".","c","p","p">>, <<".","j","a","v","a">>, <<".","r","s">> }

\* Extensions that carry only a 'run' command.
InterpretedExts ==
    { <<".","p","y">>, <<".","r","b">>, <<".","j","l">>, <<".","j","s">>,
      <<".","t","s">>, <<".","p","l">>, <<".","p","h","p">>,
      <<".","l","u","a">>, <<".","r">>, <<".","s","h">>,
      <<".","p","s","1">>, <<".","g","o">>, <<".","s","c","a","l","a">>,
      <<".","s","w","i","f","t">>, <<".","k","t">>, <<".","h","s">>,
      <<".","m","l">>, <<".","c","l","j">> }

\* Keys of Language_Support(...).language_config.
language_config == InterpretedExts \cup CompiledExts

HasCompile(extension) == extension \in CompiledExts

\* config["cleanup"]: the compiled artifact of the candidate (the executable,
\* or the .class file for java); interpreted languages register nothing.
CleanupOf(extension) ==
    IF extension = <<".","j","a","v","a">> THEN <<"class">>
    ELSE IF extension \in CompiledExts THEN <<"exe">>
    ELSE <<>>

-----------------------------------------------------------------------------
(* The directory tree the walker runs on.  A file is its name, its line    *)
(* count, its size in bytes, and what the program in it does when run:     *)
(* the wall times (ms) a run may take and its resident memory (MB).        *)

File(name, lines, bytes, durs, rss) ==
    [name |-> name, lines |-> lines, bytes |-> bytes, durs |-> durs, rss |-> rss]

F1c   == File(<<"1",".","c">>,                 40, 3072, {10}, 2)
F2a   == File(<<"2","a",".","p","y">>,         12, 1024, {100}, 30)
F2b   == File(<<"2","b",".","p","y">>,         30, 4096, {300}, 45)
FAlt  == File(<<"A","l","t","2",".","p","y">>, 80, 5120, {100}, 30)
FTxt  == File(<<"2",".","T","X","T">>,          5, 1024, {100}, 30)
FXyz  == File(<<"2",".","x","y","z">>,          5, 1024, {100}, 30)
FAltX == File(<<"A","l","t",".","x","y","z">>,  5, 1024, {100}, 30)
FExe  == File(<<"2",".","e","x","e">>,          0, 9216, {10}, 2)

problems_to_run == <<1, 3, 2>>

\* Problem folders that exist under base_dir (problem 3 has none).
ExistingFolders == {1, 2}

\* A glob that does not depend on the problem folder being there.
GlobAnyFolder(problem_no, lang) ==
    IF lang = <<"p","y">> THEN <<F2a>> ELSE <<>>

\* problem_path.glob(solution_pattern): what the configured pattern matches
\* in the problem folder for one language; nothing in a missing folder.
Glob(problem_no, lang) ==
    IF problem_no \notin ExistingFolders THEN <<>>
    ELSE IF problem_no = 1 /\ lang = <<"p","y">> THEN <<FAltX>>
    ELSE IF problem_no = 1 /\ lang = <<"c">> THEN <<F1c>>
    ELSE IF problem_no = 2 /\ lang = <<"p","y">> THEN <<F2a, FAlt, F2b>>
    ELSE IF problem_no = 2 /\ lang = <<"h","s">> THEN <<FTxt, FXyz, FExe>>
    ELSE <<>>

-----------------------------------------------------------------------------
(* ScriptRunner._record_result and the helpers of run_script. *)

Records(t, m, f) == [times |-> t, mems |-> m, info |-> f]

\* A recording that takes the triple of every result, the latest one staying.
RecordResultLatest(rec, problem_number, res) ==
    LET fresh == problem_number \notin DOMAIN rec.times
        t0 == IF fresh THEN rec.times @@ (problem_number :> <<>>) ELSE rec.times
        m0 == IF fresh THEN rec.mems @@ (problem_number :> <<>>) ELSE rec.mems
        f0 == IF fresh
              THEN rec.info @@ (problem_number :> <<res.ext, res.lines, res.size>>)
              ELSE [rec.info EXCEPT
                       ![problem_number] = <<res.ext, res.lines, res.size>>]
    IN  Records([t0 EXCEPT ![problem_number] = Append(@, res.time_ms)],
                [m0 EXCEPT ![problem_number] = Append(@, res.memory)],
                f0)

\* A recording that appends the time and leaves the memory sample out.
RecordResultTimeOnly(rec, problem_number, res) ==
    LET fresh == problem_number \notin DOMAIN rec.times
        t0 == IF fresh THEN rec.times @@ (problem_number :> <<>>) ELSE rec.times
        m0 == IF fresh THEN rec.mems @@ (problem_number :> <<>>) ELSE rec.mems
        f0 == IF fresh
              THEN rec.info @@ (problem_number :> <<res.ext, res.lines, res.size>>)
              ELSE rec.info
    IN  Records([t0 EXCEPT ![problem_number] = Append(@, res.time_ms)], m0, f0)

\* _record_result: the first result of a problem creates its three entries,
\* every result appends one time and one memory sample.
RecordResult(rec, problem_number, res) ==
    LET fresh == problem_number \notin DOMAIN rec.times
        t0 == IF fresh THEN rec.times @@ (problem_number :> <<>>) ELSE rec.times
        m0 == IF fresh THEN rec.mems @@ (problem_number :> <<>>) ELSE rec.mems
        f0 == IF fresh
              THEN rec.info @@ (problem_number :> <<res.ext, res.lines, res.size>>)
              ELSE rec.info
    IN  Records([t0 EXCEPT ![problem_number] = Append(@, res.time_ms)],
                [m0 EXCEPT ![problem_number] = Append(@, res.memory)],
                f0)

\* _record_result: a problem's key enters times_taken with its first result.
InsertKey(order, problem_number) ==
    IF \E i \in DOMAIN order : order[i] = problem_number
    THEN order
    ELSE Append(order, problem_number)

\* get_file_line_count / get_file_size (kB).
get_file_line_count(f) == f.lines
get_file_size(f) == f.bytes \div 1024

\* `if result:` in process_directory: None is falsy, a 5-tuple is truthy.
Truthy(res) == res # None

\* extension = file_path.suffix.lower()
ExtensionOf(f) == Lower(PathSuffix(f.name))

SkipExts == { <<".","t","x","t">>, <<".","p","n","g">>, <<".","e","x","e">> }
SkipPrefix == <<"A","l","t">>

\* A skip test that looks at the extension alone.
EarlySkipExtOnly(f) == ExtensionOf(f) \in SkipExts

\* The early skip conditions of run_script.
EarlySkip(f) == ExtensionOf(f) \in SkipExts \/ StartsWith(f.name, SkipPrefix)

\* `extension not in language_config`
Unsupported(f) == ExtensionOf(f) \notin language_config

\* Exceptions of class Exception that the calls made by run_script raise.
ExceptionClasses ==
    {"CalledProcessError", "FileNotFoundError", "PermissionError",
     "NoSuchProcess", "AccessDenied", "UnicodeDecodeError"}

\* except subprocess.CalledProcessError (around the compile step)
CompileCatches(e) == e = "CalledProcessError"

\* except (psutil.NoSuchProcess, psutil.AccessDenied) in monitor_memory_usage
MonitorCatches(e) == e \in {"NoSuchProcess", "AccessDenied"}

\* Handlers that name the missing binary alone.
RunCatchesMissingOnly(e) == e = "FileNotFoundError"

\* except FileNotFoundError / except Exception (around the whole run)
RunCatches(e) == e = "FileNotFoundError" \/ e \in ExceptionClasses

ExitCodes == {0, 1}

\* An exit test that lets every exit status through.
ExitFailedNever(rc) == FALSE

\* if process.returncode != 0
ExitFailed(rc) == rc # Code(0)

\* A compile step whose exit status is not checked.
CompileUnchecked == FALSE

\* subprocess.run(config["compile"], check=True, ...)
CompileChecked == TRUE

\* returncode of a child ended by terminate() / kill()
Signalled == 0 - 15

-----------------------------------------------------------------------------
(* ResultsProcessor._calculate_stats and generate_table.  Python floats are *)
(* exact rationals <<numerator, denominator>> in lowest terms; a standard  *)
(* deviation, which is a square root, is kept in tenths, rounded down.      *)

RECURSIVE GCD(_, _)
GCD(a, b) == IF b = 0 THEN a ELSE GCD(b, a % b)

Rat(n, d) == LET g == GCD(n, d) IN <<n \div g, d \div g>>
Zero == <<0, 1>>
RAdd(a, b) == Rat(a[1] * b[2] + b[1] * a[2], a[2] * b[2])
RMul(a, b) == IF a[1] * b[1] >= 0 THEN Rat(a[1] * b[1], a[2] * b[2])
              ELSE LET r == Rat(0 - a[1] * b[1], a[2] * b[2]) IN <<0 - r[1], r[2]>>
RDiv(a, b) == Rat(a[1] * b[2], a[2] * b[1])
RPos(a) == a[1] > 0

RECURSIVE SumSeq(_)
SumSeq(xs) == IF xs = <<>> THEN 0 ELSE Head(xs) + SumSeq(Tail(xs))

\* The integer square root, by bisection: lo * lo <= n < hi * hi.
RECURSIVE ISqrtBetween(_, _, _)
ISqrtBetween(n, lo, hi) ==
    IF hi - lo <= 1 THEN lo
    ELSE LET mid == (lo + hi) \div 2
         IN  IF mid * mid <= n THEN ISqrtBetween(n, mid, hi)
             ELSE ISqrtBetween(n, lo, mid)
ISqrt(n) == ISqrtBetween(n, 0, 46340)

\* A mean over the requested iteration count.
MeanPerIteration(xs) == Rat(SumSeq(xs), Iterations)

\* np.mean(xs) for a non-empty xs
Mean(xs) == Rat(SumSeq(xs), Len(xs))

\* The sample deviation of a non-empty xs (divisor n - 1), in tenths.
SampleStd(xs) ==
    LET n == Len(xs)
        sq == SumSeq([i \in 1..n |-> xs[i] * xs[i]])
        sm == SumSeq(xs)
    IN  IF n = 1 THEN 0 ELSE ISqrt(((n * sq - sm * sm) * 100) \div (n * (n - 1)))

\* np.std(xs) for a non-empty xs, the population deviation
\* sqrt(sum((x - mean)^2) / n) = sqrt(n * sum(x^2) - sum(x)^2) / n, in tenths.
Std(xs) ==
    LET n == Len(xs)
        sq == SumSeq([i \in 1..n |-> xs[i] * xs[i]])
        sm == SumSeq(xs)
    IN  ISqrt((n * sq - sm * sm) * 100) \div n

RECURSIVE Sorted(_)
Sorted(S) ==
    IF S = {} THEN <<>>
    ELSE LET least == CHOOSE x \in S : \A y \in S : x <= y
         IN  <<least>> \o Sorted(S \ {least})

RECURSIVE RSum(_, _)
RSum(f, S) ==
    IF S = {} THEN Zero
    ELSE LET x == CHOOSE y \in S : TRUE IN RAdd(f[x], RSum(f, S \ {x}))

RECURSIVE ISum(_, _)
ISum(f, S) ==
    IF S = {} THEN 0
    ELSE LET x == CHOOSE y \in S : TRUE IN f[x] + ISum(f, S \ {x})

\* The statistics of one problem: `np.mean(times) if times else 0`, ...
ProblemStats(times, mems) ==
    [avg_time |-> IF times # <<>> THEN Mean(times) ELSE Zero,
     std_time |-> IF times # <<>> THEN Std(times) ELSE 0,
     avg_mem  |-> IF mems # <<>> THEN Mean(mems) ELSE Zero,
     std_mem  |-> IF mems # <<>> THEN Std(mems) ELSE 0]

\* A statistically combined deviation: the root of the summed squares.
CombinedStd(stds, keys) == ISqrt(ISum([p \in keys |-> stds[p] * stds[p]], keys))

\* stats['total']['time_std']: the per-problem deviations, added up.
TotalStd(stds, keys) == ISum(stds, keys)

\* _calculate_stats: one entry per key of times_taken, made in the order the
\* keys were inserted (mems = peak_memory_usage.get(problem, [])), and the
\* 'total' entry after them.
CalculateStats(t, m, order) ==
    LET keys == DOMAIN t
        per == [p \in keys |->
                   ProblemStats(t[p], IF p \in DOMAIN m THEN m[p] ELSE <<>>)]
    IN  [problems |-> per,
         keys |-> order,
         total |-> [time       |-> RSum([p \in keys |-> per[p].avg_time], keys),
                    memory     |-> RSum([p \in keys |-> per[p].avg_mem], keys),
                    time_std   |-> TotalStd([p \in keys |-> per[p].std_time], keys),
                    memory_std |-> TotalStd([p \in keys |-> per[p].std_mem], keys)]]

\* A share left as a fraction of 1.
PctUnscaled(avg, total) == IF RPos(total) THEN RDiv(avg, total) ELSE Zero

\* (avg / total * 100) if total > 0 else 0
Pct(avg, total) ==
    IF RPos(total) THEN RMul(RDiv(avg, total), <<100, 1>>) ELSE Zero

\* file_info.get(problem, ("", 0, 0.0))
InfoOf(f, problem) == IF problem \in DOMAIN f THEN f[problem] ELSE <<<<>>, 0, 0>>

\* The keys of stats except 'total', as the dict iterates over them.
RowKeysAsInserted(stats) == stats.keys

\* The problems that get a row: every key of stats except 'total', sorted.
RowKeys(stats) == Sorted({stats.keys[i] : i \in DOMAIN stats.keys})

\* generate_table: df_data, one row per problem and the totals row last.
GenerateTable(f, t, m, order) ==
    LET stats == CalculateStats(t, m, order)
        keys == RowKeys(stats)
        Row(p) ==
            LET st == stats.problems[p]
                inf == InfoOf(f, p)
            IN  [kind |-> "problem", problem |-> p,
                 avg_time |-> st.avg_time, std_time |-> st.std_time,
                 time_pct |-> Pct(st.avg_time, stats.total.time),
                 avg_mem |-> st.avg_mem, std_mem |-> st.std_mem,
                 mem_pct |-> Pct(st.avg_mem, stats.total.memory),
                 lang |-> inf[1], size |-> inf[3], lines |-> inf[2]]
        rows == [i \in 1..Len(keys) |-> Row(keys[i])]
        totals ==
            [kind |-> "total", problem |-> 0,
             avg_time |-> stats.total.time, std_time |-> stats.total.time_std,
             time_pct |-> <<100, 1>>,
             avg_mem |-> stats.total.memory, std_mem |-> stats.total.memory_std,
             mem_pct |-> <<100, 1>>,
             lang |-> <<>>,
             size |-> SumSeq([i \in 1..Len(rows) |-> rows[i].size]),
             lines |-> SumSeq([i \in 1..Len(rows) |-> rows[i].lines])]
    IN  Append(rows, totals)

\* "{:.2f}".format(x) for x >= 0: x in hundredths, rounded to the nearest,
\* halves to the even neighbour.
Fmt2f(r) ==
    LET q == (r[1] * 100) \div r[2]
        rem == (r[1] * 100) % r[2]
    IN  IF 2 * rem > r[2] THEN q + 1
        ELSE IF 2 * rem = r[2] THEN q + (q % 2)
        ELSE q

Line(kind, cells) == [kind |-> kind, cells |-> cells]

\* The formatted line of one row of df_data (a deviation is held in tenths).
FormatRow(row) ==
    Line(row.kind,
         <<row.problem, Fmt2f(row.avg_time), row.std_time * 10,
           Fmt2f(row.time_pct), Fmt2f(row.avg_mem), row.std_mem * 10,
           Fmt2f(row.mem_pct), row.lang, Fmt2f(<<row.size, 1>>), row.lines>>)

\* A table_lines that keeps what an earlier call left in it.
TableLinesKept(old) == old

\* self.table_lines = []
TableLinesReset(old) == <<>>

\* generate_table: self.table_lines, built next to df_data: the header and a
\* rule, one line per problem row, a rule, the totals line and the footer.
TableLines(old, rows, iterations, challenge) ==
    LET n == Len(rows)
    IN  TableLinesReset(old)
            \o << Line("header", <<>>), Line("rule", <<>>) >>
            \o [i \in 1..(n - 1) |-> FormatRow(rows[i])]
            \o << Line("rule", <<>>), FormatRow(rows[n]),
                  Line("footer", <<challenge, iterations>>) >>

-----------------------------------------------------------------------------
(* State after ScriptRunner() is constructed and process_directory called. *)

NoDay == [time |-> 0, mem |-> 0, lines |-> 0, size |-> 0, n |-> 0]

\* No candidate is being run.
EndingAtRest ==
    /\ run_ms = 0
    /\ term_requested = FALSE
    /\ wait_expired = FALSE
    /\ killed = FALSE
    /\ warnings = {}

\* No child lingers and no artifact is on disk.
OsAtRest ==
    /\ lingering = 0
    /\ disk = {}

\* monitor_memory_usage is not being looked at.
MonitorAtRest ==
    /\ child = "none"
    /\ child_rss = 0
    /\ mm_process = "none"
    /\ mm_peak = 0
    /\ mm_ret = <<>>
    /\ seen = <<>>
    /\ polls = 0

\* ChallengeConfig is not being looked at.
ConfigAtRest ==
    /\ config_data = {}
    /\ cfg_error = "none"

\* run_script's command preparation is not being looked at.
CommandAtRest ==
    /\ input_exists = FALSE
    /\ input_file = "none"
    /\ run_cmd = <<>>

\* load_config is not being looked at.
LoadingAtRest ==
    /\ cfg_files = None
    /\ loaded = "none"

\* ChallengeBenchmarks.analyze is not being looked at.
AnalysisAtRest ==
    /\ own = None
    /\ analyze_calls = 0

\* The child's output pipe is not being looked at.
PipingAtRest ==
    /\ pipe = 0
    /\ unwritten = 0

\* ScriptBuilder is not being looked at.
BuilderAtRest ==
    /\ fs = None
    /\ sb_args = None
    /\ sb_error = "none"
    /\ sb_calls = 0
    /\ sb_prev = None

\* Nothing else of the repository is being looked at.
OthersAtRest ==
    /\ CommandAtRest
    /\ LoadingAtRest
    /\ AnalysisAtRest
    /\ PipingAtRest
    /\ BuilderAtRest

\* run_script has no locals.
LocalsAtRest ==
    /\ process = "none"
    /\ returncode = NoCode
    /\ peak_memory = 0
    /\ exc = "none"
    /\ result = None
    /\ cleanup_files = <<>>
    /\ compile_ms = 0

\* The walker has not started and nothing is recorded.
HarnessAtRest ==
    /\ iteration = 0
    /\ pidx = 0
    /\ lidx = 0
    /\ pending = <<>>
    /\ times_taken = <<>>
    /\ peak_memory_usage = <<>>
    /\ file_info = <<>>
    /\ key_order = <<>>
    /\ calls = 0
    /\ last_run = <<0, 0, 0, 0>>
    /\ compiles = 0
    /\ compile_failed = FALSE
    /\ launches = 0
    /\ before = Records(<<>>, <<>>, <<>>)
    /\ day = NoDay
    /\ want_times = <<>>
    /\ want_mems = <<>>
    /\ want_info = <<>>
    /\ args = None
    /\ df = None
    /\ table_lines = <<>>
    /\ gt_calls = 0
    /\ gt_prev = None
    /\ EndingAtRest
    /\ OsAtRest

Init ==
    /\ pc = "pd_iter"
    /\ iteration = 0
    /\ pidx = 0
    /\ lidx = 0
    /\ pending = <<>>
    /\ file_path = None
    /\ process = "none"
    /\ returncode = NoCode
    /\ peak_memory = 0
    /\ exc = "none"
    /\ result = None
    /\ cleanup_files = <<>>
    /\ times_taken = <<>>
    /\ peak_memory_usage = <<>>
    /\ file_info = <<>>
    /\ calls = 0
    /\ last_run = <<0, 0, 0, 0>>
    /\ OthersAtRest
    /\ compiles = 0
    /\ compile_failed = FALSE
    /\ launches = 0
    /\ before = Records(<<>>, <<>>, <<>>)
    /\ day = NoDay
    /\ want_times = <<>>
    /\ want_mems = <<>>
    /\ want_info = <<>>
    /\ args = None
    /\ df = None
    /\ table_lines = <<>>
    /\ gt_calls = 0
    /\ gt_prev = None
    /\ compile_ms = 0
    /\ key_order = <<>>
    /\ EndingAtRest
    /\ OsAtRest
    /\ MonitorAtRest
    /\ ConfigAtRest

Now == Records(times_taken, peak_memory_usage, file_info)

problem_no == problems_to_run[pidx]

-----------------------------------------------------------------------------
(* ScriptRunner.process_directory. *)

\* A range that stops one pass short.
RangeShort(n) == n - 1

\* range(iterations): the number of values it yields.
RangeLen(n) == n

\* for iteration in range(iterations)
PD_Iteration ==
    /\ pc = "pd_iter"
    /\ IF iteration < RangeLen(Iterations)
       THEN /\ iteration' = iteration + 1
            /\ pidx' = 0
            /\ pc' = "pd_prob"
       ELSE /\ pc' = "pd_done"
            /\ UNCHANGED <<iteration, pidx>>
    /\ UNCHANGED <<lidx, pending, runlocals, records, calls, last_run, perrun, periter, table, os, aside>>

\* for problem_no in problems_to_run
PD_Problem ==
    /\ pc = "pd_prob"
    /\ IF pidx < Len(problems_to_run)
       THEN /\ pidx' = pidx + 1
            /\ lidx' = 0
            /\ pc' = "pd_lang"
       ELSE /\ pc' = "pd_iter"
            /\ UNCHANGED <<pidx, lidx>>
    /\ day' = NoDay
    /\ UNCHANGED <<iteration, pending, runlocals, records, calls, last_run, perrun,
                   want_times, want_mems, want_info, table, os, aside>>

\* One sample per problem and iteration, as the per-iteration totals give it.
WantAppend(w, p, v) ==
    IF p \in DOMAIN w THEN [w EXCEPT ![p] = Append(@, v)] ELSE w @@ (p :> <<v>>)

\* for lang in self.supported_languages: ... problem_path.glob(solution_pattern)
PD_Lang ==
    /\ pc = "pd_lang"
    /\ IF lidx < Len(supported_languages)
       THEN /\ lidx' = lidx + 1
            /\ pending' = Glob(problem_no, supported_languages[lidx + 1])
            /\ pc' = "pd_file"
            /\ UNCHANGED <<want_times, want_mems, want_info>>
       ELSE /\ pc' = "pd_prob"
            /\ want_times' = IF day.n > 0
                             THEN WantAppend(want_times, problem_no, day.time)
                             ELSE want_times
            /\ want_mems' = IF day.n > 0
                            THEN WantAppend(want_mems, problem_no, day.mem)
                            ELSE want_mems
            /\ want_info' = IF day.n > 0 /\ problem_no \notin DOMAIN want_info
                            THEN want_info @@ (problem_no :> <<day.lines, day.size>>)
                            ELSE want_info
            /\ UNCHANGED <<lidx, pending>>
    /\ UNCHANGED <<iteration, pidx, runlocals, records, calls, last_run, perrun, day, table, os, aside>>

\* for solution_file in ...: result = self.run_script(solution_file, input_path)
PD_File ==
    /\ pc = "pd_file"
    /\ IF pending # <<>>
       THEN /\ file_path' = Head(pending)
            /\ pending' = Tail(pending)
            /\ pc' = "rs_classify"
            /\ calls' = calls + 1
            /\ last_run' =
                   <<iteration, pidx, lidx,
                     Len(Glob(problem_no, supported_languages[lidx])) - Len(pending) + 1>>
            /\ before' = Now
       ELSE /\ pc' = "pd_lang"
            /\ UNCHANGED <<pending, file_path, calls, last_run, before>>
    /\ UNCHANGED <<iteration, pidx, lidx, process, returncode, peak_memory,
                   exc, result, cleanup_files, compile_ms, records, compiles,
                   compile_failed, launches, ending, periter, table, os, aside>>

\* if result: self._record_result(problem_no, result); the locals of the
\* finished run_script call are gone.
PD_Record ==
    /\ pc = "rs_return"
    /\ pc' = "pd_file"
    /\ IF Truthy(result)
       THEN LET r == RecordResult(Now, problem_no, result)
            IN  /\ times_taken' = r.times
                /\ peak_memory_usage' = r.mems
                /\ file_info' = r.info
                /\ key_order' = InsertKey(key_order, problem_no)
                /\ day' = [time  |-> day.time + result.time_ms,
                           mem   |-> Max(day.mem, result.memory),
                           lines |-> day.lines + result.lines,
                           size  |-> day.size + result.size,
                           n     |-> day.n + 1]
       ELSE UNCHANGED <<records, day>>
    /\ file_path' = None
    /\ process' = "none"
    /\ returncode' = NoCode
    /\ peak_memory' = 0
    /\ exc' = "none"
    /\ result' = None
    /\ cleanup_files' = <<>>
    /\ compile_ms' = 0
    /\ compiles' = 0
    /\ compile_failed' = FALSE
    /\ launches' = 0
    /\ before' = Records(<<>>, <<>>, <<>>)
    /\ run_ms' = 0
    /\ term_requested' = FALSE
    /\ wait_expired' = FALSE
    /\ killed' = FALSE
    /\ warnings' = {}
    /\ UNCHANGED <<walker, calls, last_run, want_times, want_mems, want_info, table, os,
                   aside>>

-----------------------------------------------------------------------------
(* ScriptRunner.run_script. *)

\* An exception leaves the statement that raised it: the handlers of the
\* enclosing try decide at rs_except.
Raise(e) ==
    /\ exc' = e
    /\ pc' = "rs_except"

Range(xs) == {xs[i] : i \in DOMAIN xs}

\* The wall time the compile command takes on a source file (ms).
CompileTime(f) == 10 * f.lines

\* Early skip conditions and the registry lookup; both return before the try.
\* start_time = time.time() is taken here, before the try.
RS_Classify ==
    /\ pc = "rs_classify"
    /\ IF EarlySkip(file_path) \/ Unsupported(file_path)
       THEN pc' = "rs_return"
       ELSE IF HasCompile(ExtensionOf(file_path))
            THEN pc' = "rs_compile"
            ELSE pc' = "rs_launch"
    /\ UNCHANGED <<walker, runlocals, records, calls, last_run, perrun, periter, table,
                   os, aside>>

\* subprocess.run(config["compile"], check=True, ...): the compiler runs and
\* exits 0, leaving its artifact on disk; runs and exits non-zero
\* (CalledProcessError); or cannot be started.  The clock started at
\* start_time runs meanwhile.
RS_Compile ==
    /\ pc = "rs_compile"
    /\ \/ /\ compiles' = compiles + 1
          /\ cleanup_files' = cleanup_files \o CleanupOf(ExtensionOf(file_path))
          /\ disk' = disk \cup Range(CleanupOf(ExtensionOf(file_path)))
          /\ compile_ms' = compile_ms + CompileTime(file_path)
          /\ pc' = "rs_launch"
          /\ UNCHANGED <<exc, compile_failed>>
       \/ /\ compiles' = compiles + 1
          /\ compile_failed' = TRUE
          /\ IF ~CompileChecked
             THEN /\ cleanup_files' =
                        cleanup_files \o CleanupOf(ExtensionOf(file_path))
                  /\ pc' = "rs_launch"
                  /\ UNCHANGED exc
             ELSE /\ IF CompileCatches("CalledProcessError")
                     THEN pc' = "rs_finally" /\ UNCHANGED exc
                     ELSE Raise("CalledProcessError")
                  /\ UNCHANGED cleanup_files
          /\ UNCHANGED <<disk, compile_ms>>
       \/ /\ \E e \in {"FileNotFoundError", "PermissionError"} : Raise(e)
          /\ UNCHANGED <<compiles, compile_failed, cleanup_files, disk,
                         compile_ms>>
    /\ UNCHANGED <<walker, file_path, process, returncode, peak_memory, result,
                   records, calls, last_run, launches, before, ending, periter, table,
                   lingering, aside>>

\* subprocess.Popen(run_cmd, ...): the child starts, or the binary is missing
\* or cannot be executed.
RS_Launch ==
    /\ pc = "rs_launch"
    /\ \/ /\ process' = "running"
          /\ launches' = launches + 1
          /\ pc' = "rs_monitor"
          /\ UNCHANGED exc
       \/ /\ \E e \in {"FileNotFoundError", "PermissionError"} : Raise(e)
          /\ UNCHANGED <<process, launches>>
    /\ UNCHANGED <<walker, file_path, returncode, peak_memory, result,
                   cleanup_files, compile_ms, records, calls, last_run, compiles,
                   compile_failed, before, ending, periter, table, os, aside>>

\* monitor_memory_usage(process): polls until the child has exited and returns
\* the largest sample in MB (0 when no sample was taken); NoSuchProcess and
\* AccessDenied make it return 0.0, any other exception leaves it.
RS_Monitor ==
    /\ pc = "rs_monitor"
    /\ \/ /\ process' = "exited"
          /\ returncode' \in {Code(c) : c \in ExitCodes}
          /\ peak_memory' \in {0, file_path.rss}
          /\ pc' = "rs_communicate"
          /\ UNCHANGED exc
       \/ /\ \E e \in {"NoSuchProcess", "AccessDenied"} :
                /\ IF MonitorCatches(e)
                   THEN peak_memory' = 0 /\ pc' = "rs_communicate" /\ UNCHANGED exc
                   ELSE Raise(e) /\ UNCHANGED peak_memory
                /\ IF e = "NoSuchProcess"
                   THEN process' = "exited" /\ returncode' \in {Code(c) : c \in ExitCodes}
                   ELSE UNCHANGED <<process, returncode>>
       \/ /\ Raise("PermissionError")
          /\ UNCHANGED <<process, returncode, peak_memory>>
    /\ UNCHANGED <<walker, file_path, result, cleanup_files, compile_ms,
                   records, calls, last_run, perrun, periter, table, os, aside>>

\* stdout, stderr = process.communicate(): waits for the child and reads its
\* output; decoding the output may fail.
RS_Communicate ==
    /\ pc = "rs_communicate"
    /\ process' = "exited"
    /\ IF process = "running"
       THEN returncode' \in {Code(c) : c \in ExitCodes}
       ELSE UNCHANGED returncode
    /\ \/ pc' = "rs_result" /\ UNCHANGED exc
       \/ Raise("UnicodeDecodeError")
    /\ UNCHANGED <<walker, file_path, peak_memory, result, cleanup_files,
                   compile_ms, records, calls, last_run, perrun, periter, table, os,
                   aside>>

\* The result tuple of a successful run.
ResultTuple(f, time_ms, memory) ==
    [ext |-> ExtensionOf(f), lines |-> get_file_line_count(f),
     size |-> get_file_size(f), time_ms |-> time_ms, memory |-> memory]

\* if process.returncode != 0: return None; otherwise return the tuple, whose
\* time is (time.time() - start_time) * 1000: what has passed since start_time
\* was taken, the ms the child ran included.
RS_Result ==
    /\ pc = "rs_result"
    /\ \E ms \in file_path.durs :
          /\ run_ms' = ms
          /\ IF ExitFailed(returncode)
             THEN UNCHANGED result
             ELSE result' = ResultTuple(file_path, compile_ms + ms, peak_memory)
    /\ pc' = "rs_finally"
    /\ UNCHANGED <<walker, file_path, process, returncode, peak_memory, exc,
                   cleanup_files, compile_ms, records, calls, last_run, compiles,
                   compile_failed, launches, before, term_requested,
                   wait_expired, killed, warnings, periter, table, os, aside>>

\* except FileNotFoundError / except Exception: print and return None; an
\* exception neither clause names stays in flight.
RS_Except ==
    /\ pc = "rs_except"
    /\ IF RunCatches(exc) THEN exc' = "none" ELSE UNCHANGED exc
    /\ pc' = "rs_finally"
    /\ UNCHANGED <<walker, file_path, process, returncode, peak_memory, result,
                   cleanup_files, compile_ms, records, calls, last_run, perrun, periter,
                   table, os, aside>>

\* A finally clause that never finds a child to end.
StillAliveNever(p) == FALSE

\* if process and process.poll() is None
StillAlive(p) == p = "running"

\* finally: a child that is still alive is asked to terminate, unless
\* poll() finds that it has exited in the meantime.
RS_Finally ==
    /\ pc = "rs_finally"
    /\ IF StillAlive(process)
       THEN \/ /\ process' = "exited"
               /\ returncode' \in {Code(c) : c \in ExitCodes}
               /\ pc' = "rs_cleanup"
               /\ UNCHANGED term_requested
            \/ /\ term_requested' = TRUE
               /\ pc' = "rs_wait"
               /\ UNCHANGED <<process, returncode>>
       ELSE /\ pc' = "rs_cleanup"
            /\ UNCHANGED <<process, returncode, term_requested>>
    /\ UNCHANGED <<walker, file_path, peak_memory, exc, result, cleanup_files,
                   compile_ms, records, calls, last_run, compiles, compile_failed,
                   launches, before, run_ms, wait_expired, killed, warnings,
                   periter, table, os, aside>>

\* process.wait(timeout=5): the child ends within the grace period and is
\* reaped, or TimeoutExpired is caught and process.kill() is called.  kill()
\* sends the signal and returns: the child is dead by then, or dies later.
RS_Wait ==
    /\ pc = "rs_wait"
    /\ \/ /\ process' = "exited"
          /\ returncode' = Code(Signalled)
          /\ UNCHANGED <<wait_expired, killed, lingering>>
       \/ /\ wait_expired' = TRUE
          /\ killed' = TRUE
          /\ process' = "killed"
          /\ \/ UNCHANGED lingering
             \/ /\ lingering < MaxLingering
                /\ lingering' = lingering + 1
          /\ UNCHANGED returncode
    /\ pc' = "rs_cleanup"
    /\ UNCHANGED <<walker, file_path, peak_memory, exc, result, cleanup_files,
                   compile_ms, records, calls, last_run, compiles, compile_failed,
                   launches, before, run_ms, term_requested, warnings,
                   periter, table, disk, aside>>

\* A removal loop without a handler.
CleanupCatchesNothing(e) == FALSE

\* except OSError (around each unlink)
CleanupCatches(e) == e = "OSError"

\* for f in cleanup_files: Path(f).unlink(missing_ok=True), where a removal
\* that fails is reported; then run_script returns, or the exception in
\* flight reaches process_directory, which has no handler.
RS_Cleanup ==
    /\ pc = "rs_cleanup"
    /\ \E failed \in SUBSET (Range(cleanup_files) \cap disk) :
          /\ disk' = disk \ (Range(cleanup_files) \ failed)
          /\ IF failed = {} \/ CleanupCatches("OSError")
             THEN /\ warnings' = failed
                  /\ pc' = IF exc = "none" THEN "rs_return" ELSE "pd_raised"
                  /\ UNCHANGED <<exc, result>>
             ELSE /\ warnings' = {}
                  /\ exc' = "OSError"
                  /\ result' = None
                  /\ pc' = "pd_raised"
    /\ UNCHANGED <<walker, file_path, process, returncode, peak_memory,
                   cleanup_files, compile_ms, records, calls, last_run, compiles,
                   compile_failed, launches, before, run_ms, term_requested,
                   wait_expired, killed, periter, table, lingering, aside>>

\* The operating system ends a child that was sent the kill signal.
OS_ChildDies ==
    /\ lingering > 0
    /\ lingering' = lingering - 1
    /\ UNCHANGED <<pc, walker, runlocals, records, calls, last_run, perrun, periter,
                   table, disk, aside>>

-----------------------------------------------------------------------------
(* ChallengeBenchmarks.analyze: generate_table on the runner's records,    *)
(* once process_directory has returned.                                    *)

challenge_header == "Challenge"

AN_Table ==
    /\ pc = "pd_done"
    /\ args' = Now
    /\ df' = GenerateTable(file_info, times_taken, peak_memory_usage, key_order)
    /\ table_lines' = TableLines(table_lines, df', Iterations, challenge_header)
    /\ gt_calls' = gt_calls + 1
    /\ gt_prev' = None
    /\ pc' = "an_done"
    /\ UNCHANGED <<walker, runlocals, records, calls, last_run, perrun, periter, os,
                   aside>>

Next ==
    \/ PD_Iteration
    \/ PD_Problem
    \/ PD_Lang
    \/ PD_File
    \/ PD_Record
    \/ RS_Classify
    \/ RS_Compile
    \/ RS_Launch
    \/ RS_Monitor
    \/ RS_Communicate
    \/ RS_Result
    \/ RS_Except
    \/ RS_Finally
    \/ RS_Wait
    \/ RS_Cleanup
    \/ OS_ChildDies
    \/ AN_Table

Spec == Init /\ [][Next]_vars

-----------------------------------------------------------------------------
(* ResultsProcessor.generate_table called directly on record maps: every   *)
(* time map of up to MaxSamples samples per problem and memory map of up   *)
(* to MaxMemSamples, either possibly lacking a problem the other has.      *)

MaxSamples == 2
MaxMemSamples == 1

\* generate_table calls made on one ResultsProcessor.
MaxCalls == 2

TimeVals == {0, 120, 140}
MemVals == {50}
TableProblems == {1, 2}

SeqsUpTo(S, n) == UNION {[1..k -> S] : k \in 0..n}

MapsInto(S) == UNION {[K -> S] : K \in SUBSET TableProblems}

InfoMaps == { <<>>, [p \in TableProblems |-> <<<<".","p","y">>, 19 + p, 2 * p>>] }

\* The orders in which the keys of a dict can have been inserted.
Orders(S) == {o \in [1..Cardinality(S) -> S] : Range(o) = S}

\* key_order is the insertion order of the time map handed in.
InitTable ==
    /\ pc = "gt_call"
    /\ args \in {Records(t, m, f) :
                    t \in MapsInto(SeqsUpTo(TimeVals, MaxSamples)),
                    m \in MapsInto(SeqsUpTo(MemVals, MaxMemSamples)),
                    f \in InfoMaps}
    /\ key_order \in Orders(DOMAIN args.times)
    /\ df = None
    /\ table_lines = <<>>
    /\ gt_calls = 0
    /\ gt_prev = None
    /\ compile_ms = 0
    /\ EndingAtRest
    /\ OsAtRest
    /\ MonitorAtRest
    /\ ConfigAtRest
    /\ iteration = 0
    /\ pidx = 0
    /\ lidx = 0
    /\ pending = <<>>
    /\ file_path = None
    /\ process = "none"
    /\ returncode = NoCode
    /\ peak_memory = 0
    /\ exc = "none"
    /\ result = None
    /\ cleanup_files = <<>>
    /\ times_taken = <<>>
    /\ peak_memory_usage = <<>>
    /\ file_info = <<>>
    /\ calls = 0
    /\ last_run = <<0, 0, 0, 0>>
    /\ OthersAtRest
    /\ compiles = 0
    /\ compile_failed = FALSE
    /\ launches = 0
    /\ before = Records(<<>>, <<>>, <<>>)
    /\ day = NoDay
    /\ want_times = <<>>
    /\ want_mems = <<>>
    /\ want_info = <<>>

GT_Call ==
    /\ pc \in {"gt_call", "gt_done"}
    /\ gt_calls < MaxCalls
    /\ df' = GenerateTable(args.info, args.times, args.mems, key_order)
    /\ table_lines' = TableLines(table_lines, df', Iterations, challenge_header)
    /\ gt_calls' = gt_calls + 1
    /\ gt_prev' = IF gt_calls = 0 THEN None
                  ELSE [df |-> df, lines |-> table_lines]
    /\ pc' = "gt_done"
    /\ UNCHANGED <<args, walker, runlocals, records, calls, last_run, perrun, periter,
                   os, aside>>

NextTable == GT_Call

SpecTable == InitTable /\ [][NextTable]_vars

-----------------------------------------------------------------------------
(* ScriptRunner.monitor_memory_usage, step by step, next to a child that   *)
(* grows, shrinks and exits on its own.  Resident memory is in bytes.      *)

base == <<walker, runlocals, records, calls, last_run, perrun, periter, os, table>>
harness == <<base, others>>

\* Chunks of output the operating system holds in a pipe nobody reads.
PipeCapacity == 2

\* Chunks of output a child writes at most before it exits.
MaxOutput == 4

\* Input text files one create_files call may ask for.
MaxTxt == 2

\* create_files calls made with the same arguments.
MaxBuilds == 2

\* analyze calls made on one ChallengeBenchmarks object.
MaxAnalyze == 2

\* Results recorded during one analyze call.
MaxRecords == 2

\* Script files of one day that the legacy harness runs after the first.
MaxScripts == 2

\* process.poll() calls one monitoring loop makes at most.
MaxPolls == 3

MB(n) == n * 1024 * 1024
RssVals == {MB(10), MB(30)}

\* peak_memory / (1024 ** 2)
ToMB(bytes) == Rat(bytes, 1024 * 1024)

InitMonitor ==
    /\ pc = "mm_poll"
    /\ child = "alive"
    /\ child_rss \in RssVals
    /\ mm_process = "none"
    /\ mm_peak = 0
    /\ mm_ret = <<>>
    /\ seen = <<>>
    /\ polls = 0
    /\ iteration = 0
    /\ pidx = 0
    /\ lidx = 0
    /\ pending = <<>>
    /\ file_path = None
    /\ process = "running"
    /\ returncode = NoCode
    /\ peak_memory = 0
    /\ exc = "none"
    /\ result = None
    /\ cleanup_files = <<>>
    /\ compile_ms = 0
    /\ times_taken = <<>>
    /\ peak_memory_usage = <<>>
    /\ file_info = <<>>
    /\ key_order = <<>>
    /\ calls = 0
    /\ last_run = <<0, 0, 0, 0>>
    /\ OthersAtRest
    /\ compiles = 0
    /\ compile_failed = FALSE
    /\ launches = 0
    /\ before = Records(<<>>, <<>>, <<>>)
    /\ day = NoDay
    /\ want_times = <<>>
    /\ want_mems = <<>>
    /\ want_info = <<>>
    /\ args = None
    /\ df = None
    /\ table_lines = <<>>
    /\ gt_calls = 0
    /\ gt_prev = None
    /\ EndingAtRest
    /\ OsAtRest
    /\ ConfigAtRest

\* while process.poll() is None: a child that has exited is reaped and the
\* loop ends with return peak_memory / (1024 ** 2).
MM_Poll ==
    /\ pc = "mm_poll"
    /\ IF child = "alive"
       THEN /\ polls < MaxPolls
            /\ polls' = polls + 1
            /\ pc' = "mm_open"
            /\ UNCHANGED <<child, mm_ret>>
       ELSE /\ child' = "reaped"
            /\ mm_ret' = <<ToMB(mm_peak)>>
            /\ pc' = "mm_done"
            /\ UNCHANGED polls
    /\ UNCHANGED <<child_rss, mm_process, mm_peak, seen, harness, cfg>>

\* The handler of monitor_memory_usage: return 0.0.
MM_Raise(e) ==
    IF MonitorCatches(e)
    THEN mm_ret' = <<Zero>> /\ pc' = "mm_done"
    ELSE mm_ret' = <<>> /\ pc' = "mm_raised"

\* psutil.Process(process.pid): found while the child runs; a child that has
\* exited and is not reaped yet is found as a zombie, or not found.
MM_Open ==
    /\ pc = "mm_open"
    /\ \/ /\ mm_process' = "open"
          /\ pc' = "mm_read"
          /\ UNCHANGED mm_ret
       \/ /\ child = "zombie"
          /\ MM_Raise("NoSuchProcess")
          /\ UNCHANGED mm_process
    /\ UNCHANGED <<child, child_rss, mm_peak, seen, polls, harness, cfg>>

\* mem_info = ....memory_info(); peak_memory = max(peak_memory, mem_info.rss):
\* the resident size of a running child; of a zombie 0, or NoSuchProcess;
\* of either, AccessDenied.
MM_Read ==
    /\ pc = "mm_read"
    /\ \/ /\ child = "alive"
          /\ mm_peak' = Max(mm_peak, child_rss)
          /\ seen' = Append(seen, child_rss)
          /\ pc' = "mm_sleep"
          /\ UNCHANGED mm_ret
       \/ /\ child = "zombie"
          /\ mm_peak' = Max(mm_peak, 0)
          /\ pc' = "mm_sleep"
          /\ UNCHANGED <<seen, mm_ret>>
       \/ /\ child = "zombie"
          /\ MM_Raise("NoSuchProcess")
          /\ UNCHANGED <<mm_peak, seen>>
       \/ /\ MM_Raise("AccessDenied")
          /\ UNCHANGED <<mm_peak, seen>>
    /\ mm_process' = "none"
    /\ UNCHANGED <<child, child_rss, polls, harness, cfg>>

\* time.sleep(0.1)
MM_Sleep ==
    /\ pc = "mm_sleep"
    /\ pc' = "mm_poll"
    /\ UNCHANGED <<monitor, harness, cfg>>

\* The child allocates or frees memory.
CH_Resize ==
    /\ child = "alive"
    /\ pc \in {"mm_poll", "mm_open", "mm_read", "mm_sleep"}
    /\ child_rss' \in RssVals \ {child_rss}
    /\ UNCHANGED <<pc, child, mm_process, mm_peak, mm_ret, seen, polls,
                   harness, cfg>>

\* The child exits.
CH_Exit ==
    /\ child = "alive"
    /\ pc \in {"mm_poll", "mm_open", "mm_read", "mm_sleep"}
    /\ child' = "zombie"
    /\ child_rss' = 0
    /\ UNCHANGED <<pc, mm_process, mm_peak, mm_ret, seen, polls, harness, cfg>>

NextMonitor ==
    \/ MM_Poll
    \/ MM_Open
    \/ MM_Read
    \/ MM_Sleep
    \/ CH_Resize
    \/ CH_Exit

SpecMonitor == InitMonitor /\ [][NextMonitor]_vars

-----------------------------------------------------------------------------
(* ChallengeConfig: construction from a loaded document, and the reads the *)
(* harness makes of it afterwards.  A document is the set of its fields.   *)

Fields ==
    {"challenge_id", "problem_title", "challenge_folder", "problem_folder",
     "solution_file", "challenge_header", "plot_color", "text_input",
     "script_header"}

\* _validate_config: required_fields
required_fields ==
    {"challenge_id", "problem_title", "challenge_folder", "problem_folder",
     "solution_file", "challenge_header", "plot_color"}

\* self.config_data = self.load_config(...): any JSON object may be loaded.
InitConfig ==
    /\ pc = "cc_init"
    /\ config_data \in SUBSET Fields
    /\ cfg_error = "none"
    /\ iteration = 0
    /\ pidx = 0
    /\ lidx = 0
    /\ pending = <<>>
    /\ file_path = None
    /\ process = "none"
    /\ returncode = NoCode
    /\ peak_memory = 0
    /\ exc = "none"
    /\ result = None
    /\ cleanup_files = <<>>
    /\ compile_ms = 0
    /\ times_taken = <<>>
    /\ peak_memory_usage = <<>>
    /\ file_info = <<>>
    /\ key_order = <<>>
    /\ calls = 0
    /\ last_run = <<0, 0, 0, 0>>
    /\ OthersAtRest
    /\ compiles = 0
    /\ compile_failed = FALSE
    /\ launches = 0
    /\ before = Records(<<>>, <<>>, <<>>)
    /\ day = NoDay
    /\ want_times = <<>>
    /\ want_mems = <<>>
    /\ want_info = <<>>
    /\ args = None
    /\ df = None
    /\ table_lines = <<>>
    /\ gt_calls = 0
    /\ gt_prev = None
    /\ EndingAtRest
    /\ OsAtRest
    /\ MonitorAtRest

\* self.config_data[key]: KeyError for a missing key.
Subscript(data, key) == IF key \in data THEN "none" ELSE "KeyError"

\* self.get_property(key).format(...): get_property returns None for a
\* missing key, and None has no format.
GetThenFormat(data, key) == IF key \in data THEN "none" ELSE "AttributeError"

\* The first failure of a sequence of reads, "none" when none fails.
RECURSIVE FirstError(_)
FirstError(outcomes) ==
    IF outcomes = <<>> THEN "none"
    ELSE IF Head(outcomes) # "none" THEN Head(outcomes)
    ELSE FirstError(Tail(outcomes))

\* ChallengeConfig.__init__: _validate_config raises ValueError when a
\* required field is not in the document.
CC_Construct ==
    /\ pc = "cc_init"
    /\ IF required_fields \subseteq config_data
       THEN pc' = "cc_ready" /\ UNCHANGED cfg_error
       ELSE pc' = "cc_failed" /\ cfg_error' = "ValueError"
    /\ UNCHANGED <<config_data, harness, monitor>>

\* process_directory, the reads of one problem and language: get_problem_folder,
\* get_solution_filename, get_property("text_input").format(...).
PD_ReadConfig ==
    /\ pc = "cc_ready"
    /\ cfg_error' = FirstError(<<Subscript(config_data, "problem_folder"),
                                 Subscript(config_data, "solution_file"),
                                 Subscript(config_data, "challenge_folder"),
                                 GetThenFormat(config_data, "text_input")>>)
    /\ pc' = IF cfg_error' = "none" THEN "pd_config_read" ELSE "pd_config_failed"
    /\ UNCHANGED <<config_data, harness, monitor>>

\* ScriptBuilder._generate_header: get_property("script_header") is
\* formatted, with get_property("challenge_id") in its context.
SB_GenerateHeader ==
    /\ pc = "cc_ready"
    /\ cfg_error' = GetThenFormat(config_data, "script_header")
    /\ pc' = IF cfg_error' = "none" THEN "sb_header_done" ELSE "sb_header_failed"
    /\ UNCHANGED <<config_data, harness, monitor>>

NextConfig ==
    \/ CC_Construct
    \/ PD_ReadConfig
    \/ SB_GenerateHeader

SpecConfig == InitConfig /\ [][NextConfig]_vars

-----------------------------------------------------------------------------
(* Properties of the walker and of run_script, checked under Spec.         *)

RECURSIVE LenSum(_)
LenSum(ss) == IF ss = <<>> THEN 0 ELSE Len(Head(ss)) + LenSum(Tail(ss))

\* The candidate files one iteration visits.
TotalCandidates ==
    SumSeq([i \in 1..Len(problems_to_run) |->
               LenSum([j \in 1..Len(supported_languages) |->
                          Glob(problems_to_run[i], supported_languages[j])])])

Reaped == returncode # NoCode
ExitedNonZero == Reaped /\ returncode # Code(0)

\* C1: whatever way a candidate fails, process_directory never ends by an
\* exception, a run that returns None leaves the records as they were, and
\* when process_directory returns every candidate of every language, problem
\* and iteration has been handed to run_script.
C1_FailuresStayLocal ==
    /\ pc # "pd_raised"
    /\ (pc = "rs_return" /\ result = None) => Now = before
    /\ pc \in {"pd_done", "an_done"} => calls = Iterations * TotalCandidates

\* Problem 1's only runnable candidate failed in every iteration, a candidate of
\* problem 2 failed too, and problem 2 was still run and recorded afterwards.
C1_Witness ==
    /\ pc = "pd_done"
    /\ 1 \notin DOMAIN times_taken
    /\ 2 \in DOMAIN times_taken
    /\ Len(times_taken[2]) = 1

\* C2: a run whose child ended with a non-zero exit status returns None, and
\* recording it adds no time or memory sample.
C2_NonZeroExitNoResult ==
    /\ [](ExitedNonZero /\ pc \in {"rs_finally", "rs_return"} => result = None)
    /\ [][ExitedNonZero /\ pc = "rs_return" =>
              /\ times_taken' = times_taken
              /\ peak_memory_usage' = peak_memory_usage]_vars

\* The child of a candidate exited with status 1 and run_script has returned,
\* for a problem that already has samples.
C2_Witness ==
    /\ pc = "rs_return"
    /\ returncode = Code(1)
    /\ problem_no \in DOMAIN times_taken

\* C3: after a compile command that exited non-zero no run process is
\* launched, run_script returns None, and the three record maps are what they
\* were before the attempt, also once process_directory has handled the result.
C3_CompileFailureLeavesRecords ==
    /\ [](compile_failed =>
              /\ launches = 0
              /\ process = "none"
              /\ result = None
              /\ Now = before)
    /\ [][compile_failed /\ pc = "rs_return" => Now' = before]_vars

\* The compile step of problem 1's C candidate failed in a later iteration,
\* when problem 1 already had a record.
C3_Witness ==
    /\ pc = "rs_return"
    /\ compile_failed
    /\ compiles = 1
    /\ 1 \in DOMAIN before.times

\* The files the claim calls excluded: the name begins with Alt, or the
\* extension is .txt, .png or .exe, or the extension has no registry entry.
Excluded(f) ==
    \/ SubSeq(f.name, 1, 3) = <<"A","l","t">>
    \/ Lower(PathSuffix(f.name)) \in
           { <<".","t","x","t">>, <<".","p","n","g">>, <<".","e","x","e">> }
    \/ Lower(PathSuffix(f.name)) \notin language_config

\* C4: for an excluded file no compile process and no run process is ever
\* started and run_script returns None.
C4_ExcludedNeverStarted ==
    (file_path # None /\ Excluded(file_path)) =>
        /\ compiles = 0
        /\ launches = 0
        /\ process = "none"
        /\ result = None
        /\ pc \in {"rs_classify", "rs_return"}

\* run_script has returned for a file named Alt... whose extension, .py, is
\* one the registry can run.
C4_Witness ==
    /\ pc = "rs_return"
    /\ file_path # None
    /\ StartsWith(file_path.name, <<"A","l","t">>)
    /\ ExtensionOf(file_path) = <<".","p","y">>

IterationBoundary == pc \in {"pd_iter", "pd_done"}

\* C5: each iteration records, per problem, a single sample: the sum of its
\* files' elapsed times and the maximum of their peaks, with line counts and
\* sizes summed.
C5_OneSummedSamplePerIteration ==
    IterationBoundary =>
        /\ times_taken = want_times
        /\ peak_memory_usage = want_mems
        /\ DOMAIN file_info = DOMAIN want_info
        /\ \A p \in DOMAIN file_info :
              /\ file_info[p][2] = want_info[p][1]
              /\ file_info[p][3] = want_info[p][2]

\* C6: each problem's time and memory sequences hold one entry per iteration
\* in which the problem succeeded, so neither is longer than the number of
\* iterations.
C6_OneEntryPerIteration ==
    IterationBoundary =>
        \A p \in DOMAIN times_taken :
            /\ p \in DOMAIN want_times
            /\ Len(times_taken[p]) = Len(want_times[p])
            /\ Len(peak_memory_usage[p]) = Len(want_mems[p])
            /\ Len(times_taken[p]) <= Iterations
            /\ Len(peak_memory_usage[p]) <= Iterations

-----------------------------------------------------------------------------
(* Properties of generate_table, checked under SpecTable.                  *)

ProblemRows == SelectSeq(df, LAMBDA r : r.kind = "problem")
TotalRows == SelectSeq(df, LAMBDA r : r.kind = "total")

RECURSIVE RSumSeq(_)
RSumSeq(rs) == IF rs = <<>> THEN Zero ELSE RAdd(Head(rs), RSumSeq(Tail(rs)))

Col(rows, c) == [i \in 1..Len(rows) |-> rows[i][c]]

\* C7: for every problem with at least one recorded sample, the row's average
\* time is the sum of its recorded times divided by their number, and is not
\* negative.
C7_AverageIsMeanOfRecorded ==
    pc = "gt_done" =>
        \A p \in DOMAIN args.times :
            args.times[p] # <<>> =>
                /\ Cardinality({i \in 1..Len(ProblemRows) :
                                   ProblemRows[i].problem = p}) = 1
                /\ \A i \in 1..Len(ProblemRows) :
                      ProblemRows[i].problem = p =>
                          /\ ProblemRows[i].avg_time[2] > 0
                          /\ ProblemRows[i].avg_time[1] >= 0
                          /\ ProblemRows[i].avg_time[1] * Len(args.times[p]) =
                                 SumSeq(args.times[p]) * ProblemRows[i].avg_time[2]

\* Problem 1 has the single sample 140 and its row's average is 140;
\* problem 2 has the samples 120 and 140 and its row's average is 130.
C7_Witness ==
    /\ pc = "gt_done"
    /\ DOMAIN args.times = {1, 2}
    /\ args.times[1] = <<140>>
    /\ args.times[2] = <<120, 140>>
    /\ ProblemRows[1].avg_time = <<140, 1>>
    /\ ProblemRows[2].avg_time = <<130, 1>>

\* C8: the time percentages of the problem rows add up to 100 when the
\* per-problem average times add up to more than 0 and are all 0 when they
\* add up to 0, and the same for the memory percentages.
C8_PercentagesSumTo100 ==
    pc = "gt_done" =>
        /\ IF RPos(RSumSeq(Col(ProblemRows, "avg_time")))
           THEN RSumSeq(Col(ProblemRows, "time_pct")) = <<100, 1>>
           ELSE \A i \in 1..Len(ProblemRows) : ProblemRows[i].time_pct = Zero
        /\ IF RPos(RSumSeq(Col(ProblemRows, "avg_mem")))
           THEN RSumSeq(Col(ProblemRows, "mem_pct")) = <<100, 1>>
           ELSE \A i \in 1..Len(ProblemRows) : ProblemRows[i].mem_pct = Zero

\* Two rows that share the time unevenly (averages 140 and 130), while the
\* memory of one problem is missing so that the other holds all of it.
C8_Witness ==
    /\ pc = "gt_done"
    /\ Len(ProblemRows) = 2
    /\ ProblemRows[1].avg_time = <<140, 1>>
    /\ ProblemRows[2].avg_time = <<130, 1>>
    /\ ProblemRows[1].time_pct = <<1400, 27>>
    /\ ProblemRows[1].mem_pct = Zero
    /\ ProblemRows[2].mem_pct = <<100, 1>>

\* C9: a problem has a row only if at least one of its recorded times is
\* strictly positive.
C9_RowOnlyForPositiveTime ==
    pc = "gt_done" =>
        \A i \in 1..Len(ProblemRows) :
            /\ ProblemRows[i].problem \in DOMAIN args.times
            /\ \E k \in 1..Len(args.times[ProblemRows[i].problem]) :
                  args.times[ProblemRows[i].problem][k] > 0

\* C10: the totals row holds the sum of the rows' averages and the plain sum
\* of the rows' standard deviations, for time and for memory.
C10_TotalsAreSumsOverRows ==
    pc = "gt_done" =>
        /\ Len(TotalRows) = 1
        /\ TotalRows[1].avg_time = RSumSeq(Col(ProblemRows, "avg_time"))
        /\ TotalRows[1].avg_mem = RSumSeq(Col(ProblemRows, "avg_mem"))
        /\ TotalRows[1].std_time = SumSeq(Col(ProblemRows, "std_time"))
        /\ TotalRows[1].std_mem = SumSeq(Col(ProblemRows, "std_mem"))

\* Two rows with deviations 10 and 60 (in tenths: 100 and 600), which the
\* totals row adds to 70.
C10_Witness ==
    /\ pc = "gt_done"
    /\ Len(ProblemRows) = 2
    /\ ProblemRows[1].std_time = 100
    /\ ProblemRows[2].std_time = 600
    /\ TotalRows[1].std_time = 700

\* C11: in every table generate_table produces the problem rows come first,
\* in strictly ascending problem-number order whatever the order in which the
\* problems were recorded, and the totals row is the last row.
C11_RowsAscendingTotalsLast ==
    pc = "gt_done" =>
        /\ Len(df) >= 1
        /\ df[Len(df)].kind = "total"
        /\ \A i \in 1..(Len(df) - 1) : df[i].kind = "problem"
        /\ \A i, j \in 1..(Len(df) - 1) :
              i < j => df[i].problem < df[j].problem
        /\ {df[i].problem : i \in 1..(Len(df) - 1)} = Range(key_order)

\* Problem 2 was recorded before problem 1, and the table has the row of
\* problem 1 first, the row of problem 2 second and the totals row third.
C11_Witness ==
    /\ pc = "gt_done"
    /\ key_order = <<2, 1>>
    /\ Len(df) = 3
    /\ df[1].problem = 1
    /\ df[2].problem = 2
    /\ df[3].kind = "total"

\* C12: a second generate_table call on the same ResultsProcessor with the
\* same record maps returns the rows the first call returned and leaves the
\* table_lines the first call left, which hold the header, a rule, one line
\* per row, a rule and the footer and nothing else; and no call changes the
\* record maps it is given.
C12_SecondCallSameTable ==
    /\ [](gt_calls >= 2 => gt_prev = [df |-> df, lines |-> table_lines])
    /\ [](pc = "gt_done" =>
              /\ Len(table_lines) = Len(df) + 4
              /\ table_lines[1].kind = "header"
              /\ \A i \in 1..Len(df) - 1 :
                    /\ table_lines[i + 2].kind = "problem"
                    /\ table_lines[i + 2].cells[1] = df[i].problem)
    /\ [][args' = args /\ key_order' = key_order]_vars

\* generate_table has been called twice on maps with two problems, and
\* table_lines holds seven lines, the third one of problem 1.
C12_Witness ==
    /\ pc = "gt_done"
    /\ gt_calls = 2
    /\ DOMAIN args.times = {1, 2}
    /\ Len(df) = 3
    /\ Len(table_lines) = 7
    /\ table_lines[3].cells[1] = 1

-----------------------------------------------------------------------------
(* Properties of the end of run_script, checked under Spec.                *)

\* run_script has ended, by a return or by an exception.
Ended == pc \in {"rs_return", "pd_raised"}

\* C13: whenever run_script ends after it launched the child, the child has
\* been found exited or has been asked to terminate; it is killed only after
\* the wait of the grace period expired, and whenever that wait expired it was
\* killed; removal of the artifacts starts only after that.
C13_ChildEndedOrTerminated ==
    /\ (Ended /\ launches > 0) =>
           \/ process = "exited" /\ Reaped
           \/ process = "killed" /\ term_requested /\ wait_expired /\ killed
    /\ pc = "rs_cleanup" => process # "running"
    /\ pc = "rs_wait" => term_requested /\ process = "running"
    /\ killed => term_requested /\ wait_expired
    /\ wait_expired => killed

\* run_script has returned after an exception while monitoring left the
\* child running: termination was requested, the wait expired and the child
\* was killed.
C13_Witness ==
    /\ pc = "rs_return"
    /\ launches = 1
    /\ result = None
    /\ term_requested
    /\ wait_expired
    /\ killed
    /\ process = "killed"

CompileSucceeded == compiles > 0 /\ ~compile_failed

\* C14: once the compile step of a candidate has succeeded its artifacts are
\* registered, and when run_script ends, on whatever path, each of them is
\* gone from the disk or its failed removal has been reported; run_script
\* never ends by an exception, and the removal step leaves the value to be
\* returned as it was.
C14_ArtifactsRemovedBestEffort ==
    /\ []((CompileSucceeded /\ pc # "rs_compile") =>
              /\ cleanup_files = CleanupOf(ExtensionOf(file_path))
              /\ cleanup_files # <<>>)
    /\ []((CompileSucceeded /\ Ended) =>
              \A f \in Range(cleanup_files) : f \notin disk \/ f \in warnings)
    /\ [](pc # "pd_raised")
    /\ [][pc = "rs_cleanup" =>
              /\ result' = result
              /\ exc' = exc
              /\ pc' \in {"rs_cleanup", "rs_return"}]_vars

\* The compiled candidate ran and exited 0, the removal of its executable
\* failed and was reported, and run_script still returned the result tuple.
C14_Witness ==
    /\ pc = "rs_return"
    /\ CompileSucceeded
    /\ result # None
    /\ warnings = {"exe"}
    /\ "exe" \in disk

-----------------------------------------------------------------------------
(* Properties of monitor_memory_usage, checked under SpecMonitor.          *)

RECURSIVE MaxOf(_)
MaxOf(xs) == IF xs = <<>> THEN 0 ELSE Max(Head(xs), MaxOf(Tail(xs)))

\* C15: the value monitor_memory_usage returns is the largest resident-memory
\* sample it read while the child was alive, in MB, whenever the child exits.
C15_PeakIsMaxOfSamples ==
    pc = "mm_done" => mm_ret = <<ToMB(MaxOf(seen))>>

-----------------------------------------------------------------------------
(* Properties of the measurements and records, checked under Spec.         *)

\* C16: the elapsed time in a result tuple is the time between the launch of
\* the run process and its end, so that for a compiled candidate the time the
\* compile step took is not in it.
C16_ElapsedExcludesCompile ==
    result # None => result.time_ms = run_ms

\* The requested problems whose directory does not exist.
MissingProblems == Range(problems_to_run) \ ExistingFolders

\* C17: for a requested problem without a directory no script is run and no
\* record is made, process_directory raises nothing, every candidate of the
\* other problems is still run in every iteration, and the summary table
\* has no row for the problem.
C17_MissingDirectorySkipped ==
    /\ \A p \in MissingProblems :
          /\ p \notin DOMAIN times_taken
          /\ p \notin DOMAIN peak_memory_usage
          /\ p \notin DOMAIN file_info
    /\ file_path # None => problem_no \notin MissingProblems
    /\ pc # "pd_raised"
    /\ pc \in {"pd_done", "an_done"} =>
           /\ iteration = Iterations
           /\ calls = Iterations * TotalCandidates
    /\ pc = "an_done" =>
           \A i \in 1..Len(df) :
               df[i].kind = "problem" => df[i].problem \notin MissingProblems

\* Problem 3, requested between problems 1 and 2, has no directory; both
\* files of problem 2 were run and recorded in both iterations after it, and
\* the table has a row for problem 2.
C17_Witness ==
    /\ pc = "an_done"
    /\ problems_to_run = <<1, 3, 2>>
    /\ MissingProblems = {3}
    /\ 2 \in DOMAIN times_taken
    /\ Len(times_taken[2]) = 2 * Iterations
    /\ \E i \in 1..Len(df) : df[i].kind = "problem" /\ df[i].problem = 2

\* The benchmarked children that are alive: the one run_script supervises
\* and the killed ones that have not died yet.
AliveChildren == (IF process = "running" THEN 1 ELSE 0) + lingering

\* C18: at most one benchmarked child is alive at any time, and a compile or
\* run process is started only when no child of an earlier candidate is
\* still alive.
C18_AtMostOneChildAlive ==
    /\ [](AliveChildren <= 1)
    /\ [][(compiles' > compiles \/ launches' > launches) => lingering = 0]_vars

-----------------------------------------------------------------------------
(* Properties of ChallengeConfig, checked under SpecConfig.                *)

\* The fields the harness reads after construction.
FieldsRead ==
    {"problem_folder", "solution_file", "text_input", "script_header",
     "problem_title", "challenge_id", "challenge_header", "plot_color"}

\* C19: a document that lacks a field the harness reads later is refused at
\* construction, so no later read of the configuration fails.
C19_MissingFieldFailsAtConstruction ==
    /\ (pc # "cc_init" /\ ~(FieldsRead \subseteq config_data)) => pc = "cc_failed"
    /\ pc \notin {"pd_config_failed", "sb_header_failed"}

\* C20: the (label, line count, size) triple of a problem is the one of the
\* first result recorded for it, and no later _record_result call changes it.
C20_FileInfoFixedByFirstResult ==
    /\ [][\A p \in DOMAIN file_info :
              p \in DOMAIN file_info' /\ file_info'[p] = file_info[p]]_vars
    /\ [][(pc = "rs_return" /\ pc' = "pd_file" /\ result # None
               /\ problem_no \notin DOMAIN file_info)
              => /\ problem_no \in DOMAIN file_info'
                 /\ file_info'[problem_no] = <<result.ext, result.lines, result.size>>]_vars
    /\ [](DOMAIN file_info = DOMAIN times_taken)

\* The second file of problem 2, of 30 lines and 4 kB, has been recorded
\* after the first, of 12 lines and 1 kB, and file_info holds the first's.
C20_Witness ==
    /\ pc = "pd_file"
    /\ 2 \in DOMAIN times_taken
    /\ times_taken[2] = <<100, 300>>
    /\ file_info[2] = << <<".","p","y">>, 12, 1 >>


-----------------------------------------------------------------------------
(* ScriptRunner.run_script: how the run command is put together from the   *)
(* registry entry and the input_file argument.                             *)

\* Extensions of the registry whose 'input_method' is the literal 'arg'.
ArgExts == { <<".","c","p","p">>, <<".","j","a","v","a">>, <<".","r","s">> }

\* config.get("input_method"): the literal 'arg', or the input_method the
\* registry was constructed with.
InputMethodOf(extension, input_method) ==
    IF extension \in ArgExts THEN "arg" ELSE input_method

\* config["run"]: the registry's run command of an extension.
RunOf(extension) ==
    CASE extension = <<".","p","y">> -> <<"python", "file">>
      [] extension = <<".","r","b">> -> <<"ruby", "file">>
      [] extension = <<".","j","l">> -> <<"julia", "file">>
      [] extension = <<".","j","s">> -> <<"node", "file">>
      [] extension = <<".","t","s">> -> <<"ts-node", "file">>
      [] extension = <<".","p","l">> -> <<"perl", "file">>
      [] extension = <<".","p","h","p">> -> <<"php", "file">>
      [] extension = <<".","l","u","a">> -> <<"lua", "file">>
      [] extension = <<".","r">> -> <<"Rscript", "file">>
      [] extension = <<".","s","h">> -> <<"bash", "file">>
      [] extension = <<".","p","s","1">> -> <<"pwsh", "-File", "file">>
      [] extension = <<".","g","o">> -> <<"go", "run", "file">>
      [] extension = <<".","j","a","v","a">> -> <<"java", "-cp", "parent", "stem">>
      [] extension = <<".","s","c","a","l","a">> -> <<"scala", "file">>
      [] extension = <<".","s","w","i","f","t">> -> <<"swift", "file">>
      [] extension = <<".","k","t">> -> <<"kotlin", "file">>
      [] extension = <<".","h","s">> -> <<"runhaskell", "file">>
      [] extension = <<".","m","l">> -> <<"ocaml", "file">>
      [] extension = <<".","c","l","j">> -> <<"clojure", "file">>
      [] OTHER -> <<"exe">>

\* One solution file per extension of the registry.
Solution(extension) == File(<<"1">> \o extension, 10, 1024, {10}, 2)

InitCommand ==
    /\ pc = "cm_caller"
    /\ HarnessAtRest
    /\ LocalsAtRest
    /\ MonitorAtRest
    /\ ConfigAtRest
    /\ LoadingAtRest
    /\ AnalysisAtRest
    /\ PipingAtRest
    /\ BuilderAtRest
    /\ \E e \in language_config : file_path = Solution(e)
    /\ input_exists \in BOOLEAN
    /\ input_file = "none"
    /\ run_cmd = <<>>

cm_frame ==
    <<iteration, pidx, lidx, pending, process, returncode, peak_memory, exc,
      result, cleanup_files, compile_ms, records, calls, last_run, perrun,
      periter, os, table, monitor, cfg, loading, analysis, piping, builder>>

\* process_directory: input_path is built from the configured name and handed
\* to run_script for every solution file the glob yields.
CM_Walk ==
    /\ pc = "cm_caller"
    /\ input_file' = "input_path"
    /\ pc' = "cm_prepare"
    /\ UNCHANGED <<file_path, input_exists, run_cmd, cm_frame>>

\* Any other caller of run_script: input_file is None by default, or a path.
CM_Direct ==
    /\ pc = "cm_caller"
    /\ \E given \in {"none", "input_path"} : input_file' = given
    /\ pc' = "cm_prepare"
    /\ UNCHANGED <<file_path, input_exists, run_cmd, cm_frame>>

\* run_script: input_method = "arg" if input_file else "none"; run_cmd is a
\* copy of config["run"], with str(input_file) appended if input_file and
\* config.get("input_method") == "arg".
CM_Prepare ==
    /\ pc = "cm_prepare"
    /\ LET extension == ExtensionOf(file_path)
           input_method == IF input_file # "none" THEN "arg" ELSE "none"
       IN  run_cmd' =
               IF input_file # "none" /\ InputMethodOf(extension, input_method) = "arg"
               THEN Append(RunOf(extension), input_file)
               ELSE RunOf(extension)
    /\ pc' = "cm_popen"
    /\ UNCHANGED <<file_path, input_exists, input_file, cm_frame>>

\* The next solution file, in a problem folder with or without an input file.
CM_Again ==
    /\ pc = "cm_popen"
    /\ \E e \in language_config : file_path' = Solution(e)
    /\ input_exists' \in BOOLEAN
    /\ input_file' = "none"
    /\ run_cmd' = <<>>
    /\ pc' = "cm_caller"
    /\ UNCHANGED cm_frame

NextCommand == CM_Walk \/ CM_Direct \/ CM_Prepare \/ CM_Again

SpecCommand == InitCommand /\ [][NextCommand]_vars

\* C21: the input-file path is handed to run_script and appended to the run
\* command only when the input file exists on disk; with no input file the
\* run command is the registry's run command with nothing appended.
C21_InputAppendedOnlyIfExists ==
    /\ (input_file # "none" /\ pc = "cm_prepare") => input_exists
    /\ pc = "cm_popen" =>
           /\ run_cmd # RunOf(ExtensionOf(file_path)) => input_exists
           /\ ~input_exists => run_cmd = RunOf(ExtensionOf(file_path))


-----------------------------------------------------------------------------
(* ChallengeConfig.load_config, in config/ChallengeConfig.py and in the     *)
(* top-level ChallengeConfig.py, over what may be on disk.                  *)

\* What opening and parsing a file that is there may come to.
FileStates == {"valid", "unparsable", "unreadable", "undecodable"}

\* The exception that opening and json.load raise on a file in a state.
LoadErrorOf(state) ==
    CASE state = "unparsable" -> "JSONDecodeError"
      [] state = "unreadable" -> "PermissionError"
      [] state = "undecodable" -> "UnicodeDecodeError"
      [] OTHER -> "none"

\* except (PermissionError, json.JSONDecodeError, UnicodeDecodeError)
LoadCatches == {"PermissionError", "JSONDecodeError", "UnicodeDecodeError"}

\* load_config's arguments and the files they may find: config_path is None,
\* a directory, a file, or a path with nothing at it; config_file is None or
\* a name; the user file and the bundled default are absent or in a state.
LoadCases ==
    { c \in [module : {"config", "top"},
             config_path : {"none", "dir", "file", "missing"},
             config_file : {"none", "name"},
             user : FileStates \cup {"absent"},
             default : FileStates \cup {"absent"}] :
        /\ c.config_path = "file" => c.user # "absent"
        /\ c.config_path = "missing" => c.user = "absent"
        /\ (c.config_path = "dir" /\ c.config_file = "none") => c.user = "absent"
        /\ c.module = "top" => (c.config_file = "name" /\ c.default = "valid") }

InitLoad ==
    /\ pc = "lc_call"
    /\ HarnessAtRest
    /\ LocalsAtRest
    /\ file_path = None
    /\ MonitorAtRest
    /\ ConfigAtRest
    /\ CommandAtRest
    /\ AnalysisAtRest
    /\ PipingAtRest
    /\ BuilderAtRest
    /\ cfg_files \in LoadCases
    /\ loaded = "none"

lc_frame ==
    <<base, monitor, config_data, cfg_files, command, analysis, piping, builder>>

\* config/ChallengeConfig.py: the user file is tried when config_path and
\* config_file are given and the path (joined with config_file under a
\* directory) is a file; a failure to load it raises RuntimeError.  Otherwise
\* the bundled default is loaded: FileNotFoundError when it is not a file,
\* RuntimeError when it cannot be loaded.
LC_Load ==
    /\ pc = "lc_call"
    /\ cfg_files.module = "config"
    /\ LET c == cfg_files
           tried == /\ c.config_path # "none"
                    /\ c.config_file # "none"
                    /\ c.user # "absent"
       IN  IF tried
           THEN IF LoadErrorOf(c.user) \in LoadCatches
                THEN /\ cfg_error' = "RuntimeError"
                     /\ loaded' = "none"
                ELSE /\ cfg_error' = "none"
                     /\ loaded' = "user"
           ELSE IF c.default = "absent"
                THEN /\ cfg_error' = "FileNotFoundError"
                     /\ loaded' = "none"
                ELSE IF LoadErrorOf(c.default) \in LoadCatches
                     THEN /\ cfg_error' = "RuntimeError"
                          /\ loaded' = "none"
                     ELSE /\ cfg_error' = "none"
                          /\ loaded' = "default"
    /\ pc' = "lc_done"
    /\ UNCHANGED lc_frame

\* ChallengeConfig.py: without a config_path the file named config_file in
\* the current directory is tried; a user document is merged over the
\* in-code defaults; a failure to load it is printed and the defaults are
\* returned.
LT_Load ==
    /\ pc = "lc_call"
    /\ cfg_files.module = "top"
    /\ loaded' = IF cfg_files.user = "valid" THEN "merged" ELSE "default"
    /\ cfg_error' = "none"
    /\ pc' = "lc_done"
    /\ UNCHANGED lc_frame

\* The next call, with other arguments and other files.
LC_Again ==
    /\ pc = "lc_done"
    /\ cfg_files' \in LoadCases
    /\ loaded' = "none"
    /\ cfg_error' = "none"
    /\ pc' = "lc_call"
    /\ UNCHANGED <<base, monitor, config_data, command, analysis, piping, builder>>

NextLoad == LC_Load \/ LT_Load \/ LC_Again

SpecLoad == InitLoad /\ [][NextLoad]_vars

\* The user configuration can be loaded: it is asked for, it is there, and
\* it opens and parses.
UserLoadable ==
    /\ cfg_files.config_path # "none"
    /\ cfg_files.config_file # "none"
    /\ cfg_files.user = "valid"

\* C22: config.ChallengeConfig.load_config returns the user configuration
\* when it can be loaded, otherwise the bundled default, and raises only
\* when neither can be loaded.
C22_FallsBackToDefault ==
    (pc = "lc_done" /\ cfg_files.module = "config") =>
        /\ UserLoadable => (loaded = "user" /\ cfg_error = "none")
        /\ (~UserLoadable /\ cfg_files.default = "valid")
               => (loaded = "default" /\ cfg_error = "none")
        /\ cfg_error # "none" => (~UserLoadable /\ cfg_files.default # "valid")


-----------------------------------------------------------------------------
(* The legacy run_script of Benchmarks/script_runner.py, called once per    *)
(* script file by execute_challenge_scripts.                                *)

FRb == File(<<"3",".","r","b">>, 20, 2048, {100}, 30)
FJl == File(<<"3",".","j","l">>, 25, 2048, {300}, 45)

\* The script files handed to the legacy run_script.
LegacyFiles == {F1c, F2a, F2b, FAlt, FTxt, FXyz, FAltX, FExe, FRb, FJl}

\* _, extension = os.path.splitext(file_path): the case is kept.
LegacyExtensionOf(f) == PathSuffix(f.name)

\* extension in ['.txt', '.png', '.exe'], or file_name.startswith("Alt")
LegacySkip(f) ==
    \/ LegacyExtensionOf(f) \in SkipExts
    \/ StartsWith(f.name, SkipPrefix)

\* The extensions that have a branch of the if/elif chain.
LegacyExts ==
    { <<".","p","y">>, <<".","c">>, <<".","r","b">>, <<".","j","l">> }

\* except subprocess.CalledProcessError: the one handler of the try.
LegacyCatches(e) == e = "CalledProcessError"

\* An exception inside the try: CalledProcessError is printed and None is
\* returned, any other leaves run_script.
LegacyRaise(e) ==
    /\ exc' = e
    /\ result' = None
    /\ pc' = IF LegacyCatches(e) THEN "lg_return" ELSE "lg_raised"

InitLegacy ==
    /\ pc = "lg_classify"
    /\ HarnessAtRest
    /\ LocalsAtRest
    /\ MonitorAtRest
    /\ ConfigAtRest
    /\ OthersAtRest
    /\ file_path \in LegacyFiles

lg_frame ==
    <<iteration, pidx, lidx, pending, cleanup_files, compile_ms, records,
      calls, last_run, perrun, periter, os, table, aside>>

\* Skipped and unsupported files return None; '.c' goes through gcc first.
LG_Classify ==
    /\ pc = "lg_classify"
    /\ IF LegacySkip(file_path) \/ LegacyExtensionOf(file_path) \notin LegacyExts
       THEN /\ result' = None
            /\ pc' = "lg_return"
       ELSE /\ pc' = IF LegacyExtensionOf(file_path) = <<".","c">>
                     THEN "lg_compile" ELSE "lg_launch"
            /\ UNCHANGED result
    /\ UNCHANGED <<file_path, process, returncode, peak_memory, exc, lg_frame>>

\* subprocess.run(['gcc', file_path, '-o', executable], check=True)
LG_Compile ==
    /\ pc = "lg_compile"
    /\ \/ /\ pc' = "lg_launch"
          /\ UNCHANGED <<exc, result>>
       \/ \E e \in {"CalledProcessError", "FileNotFoundError"} : LegacyRaise(e)
    /\ UNCHANGED <<file_path, process, returncode, peak_memory, lg_frame>>

\* process = subprocess.Popen([...])
LG_Launch ==
    /\ pc = "lg_launch"
    /\ \/ /\ process' = "running"
          /\ pc' = "lg_monitor"
          /\ UNCHANGED <<exc, result>>
       \/ /\ LegacyRaise("FileNotFoundError")
          /\ UNCHANGED process
    /\ UNCHANGED <<file_path, returncode, peak_memory, lg_frame>>

\* peak_memory = monitor_memory_usage(process): the peak seen, or 0 when the
\* child was gone before it could be looked at; psutil.AccessDenied is not
\* caught.
LG_Monitor ==
    /\ pc = "lg_monitor"
    /\ \/ /\ \E m \in {0, file_path.rss} : peak_memory' = m
          /\ pc' = "lg_wait"
          /\ UNCHANGED <<exc, result>>
       \/ /\ LegacyRaise("AccessDenied")
          /\ UNCHANGED peak_memory
    /\ UNCHANGED <<file_path, process, returncode, lg_frame>>

\* process.wait(), then
\* return extension, line_count, file_size, elapsed_time, peak_memory
LG_Wait ==
    /\ pc = "lg_wait"
    /\ process' = "exited"
    /\ \E rc \in ExitCodes : returncode' = Code(rc)
    /\ \E ms \in file_path.durs :
           result' = [ext |-> LegacyExtensionOf(file_path),
                      lines |-> get_file_line_count(file_path),
                      size |-> get_file_size(file_path),
                      time_ms |-> ms, memory |-> peak_memory]
    /\ pc' = "lg_return"
    /\ UNCHANGED <<file_path, peak_memory, exc, lg_frame>>

\* execute_challenge_scripts: `if result:` adds the tuple to the day's sums;
\* then result = run_script(script_file) for the next script file of the day.
LG_Take ==
    /\ pc = "lg_return"
    /\ calls < MaxScripts
    /\ day' = IF Truthy(result)
              THEN [time |-> day.time + result.time_ms,
                    mem |-> Max(day.mem, result.memory),
                    lines |-> day.lines + result.lines,
                    size |-> day.size + result.size,
                    n |-> day.n + 1]
              ELSE day
    /\ calls' = calls + 1
    /\ file_path' \in LegacyFiles
    /\ process' = "none"
    /\ returncode' = NoCode
    /\ peak_memory' = 0
    /\ exc' = "none"
    /\ result' = None
    /\ pc' = "lg_classify"
    /\ UNCHANGED <<iteration, pidx, lidx, pending, cleanup_files, compile_ms,
                   records, last_run, perrun, want_times, want_mems, want_info,
                   os, table, aside>>

NextLegacy ==
    LG_Classify \/ LG_Compile \/ LG_Launch \/ LG_Monitor \/ LG_Wait \/ LG_Take

SpecLegacy == InitLegacy /\ [][NextLegacy]_vars

\* C23: the legacy run_script returns its tuple only if the script ran
\* successfully: a child that exited non-zero, a skipped or unsupported
\* file and a failed compilation all give None.
C23_LegacyTupleOnlyOnSuccess ==
    pc = "lg_return" =>
        /\ result # None => (process = "exited" /\ returncode = Code(0))
        /\ (LegacySkip(file_path) \/ LegacyExtensionOf(file_path) \notin LegacyExts)
               => result = None
        /\ exc = "CalledProcessError" => result = None


-----------------------------------------------------------------------------
(* Claims about the statistics of one problem.                              *)

\* s is, in tenths and rounded down, the root of the mean squared distance
\* of xs from its mean: (s * n)^2 <= 100 * (n * sum(x^2) - sum(x)^2)
\* < ((s + 1) * n)^2; 0 for no samples.
IsPopulationDeviation(s, xs) ==
    LET n == Len(xs)
        d == n * SumSeq([i \in 1..n |-> xs[i] * xs[i]]) - SumSeq(xs) * SumSeq(xs)
    IN  IF n = 0 THEN s = 0
        ELSE /\ s >= 0
             /\ (s * n) * (s * n) <= 100 * d
             /\ 100 * d < ((s + 1) * n) * ((s + 1) * n)

\* C24: every problem's row carries the population standard deviation of
\* its time samples and of its memory samples, and average 0 and deviation
\* 0 when it has no samples or its memory sequence is missing.
C24_PopulationDeviation ==
    pc = "gt_done" =>
        /\ {ProblemRows[i].problem : i \in 1..Len(ProblemRows)} = DOMAIN args.times
        /\ \A i \in 1..Len(ProblemRows) :
              LET p == ProblemRows[i].problem
                  times == args.times[p]
                  mems == IF p \in DOMAIN args.mems THEN args.mems[p] ELSE <<>>
              IN  /\ IsPopulationDeviation(ProblemRows[i].std_time, times)
                  /\ IsPopulationDeviation(ProblemRows[i].std_mem, mems)
                  /\ times = <<>> => ProblemRows[i].avg_time = Zero
                  /\ mems = <<>> => ProblemRows[i].avg_mem = Zero

\* Problem 1 has no time samples and one memory sample; problem 2 has the
\* time samples 120 and 140, of deviation 10, and no memory sequence.
C24_Witness ==
    /\ pc = "gt_done"
    /\ DOMAIN args.times = {1, 2}
    /\ DOMAIN args.mems = {1}
    /\ args.times[1] = <<>>
    /\ args.mems[1] = <<50>>
    /\ args.times[2] = <<120, 140>>
    /\ ProblemRows[1].avg_time = Zero
    /\ ProblemRows[1].std_time = 0
    /\ ProblemRows[2].std_time = 100
    /\ ProblemRows[2].avg_mem = Zero
    /\ ProblemRows[2].std_mem = 0


-----------------------------------------------------------------------------
(* Claims about the order of the runs process_directory makes.  A run is   *)
(* named by its iteration, the place of its problem in problems_to_run,     *)
(* the place of its language in supported_languages and the place of its    *)
(* file in what the glob yields.                                            *)

\* Every run that one full walk owes: each candidate, once per iteration.
RunsOwed ==
    UNION {{<<i, pi, l, k>> :
               i \in 1..Iterations,
               k \in 1..Len(Glob(problems_to_run[pi], supported_languages[l]))} :
           pi \in DOMAIN problems_to_run, l \in DOMAIN supported_languages}

\* a comes before b: by iteration, then problem, then language, then file.
RunBefore(a, b) ==
    \E n \in 1..4 : a[n] < b[n] /\ \A m \in 1..(n - 1) : a[m] = b[m]

\* C25: process_directory runs iteration by iteration, within an iteration
\* problem by problem in the order given, and each existing candidate
\* exactly once per iteration: every run is one that is owed and comes
\* after the run before it, and at the end as many runs were made as are
\* owed.
C25_IterationMajorOrder ==
    /\ [](calls > 0 => last_run \in RunsOwed)
    /\ [](pc = "pd_done" => calls = Cardinality(RunsOwed))
    /\ [][calls' # calls => (calls' = calls + 1 /\ RunBefore(last_run, last_run'))]_vars
    /\ [][last_run' # last_run => calls' = calls + 1]_vars

\* The walk is over: the last run was the third file of the ninth language
\* of the third problem given, in the last iteration, and the eight
\* candidates were run once per iteration.
C25_Witness ==
    /\ pc = "pd_done"
    /\ calls = 8 * Iterations
    /\ last_run = <<Iterations, 3, 9, 3>>

-----------------------------------------------------------------------------
(* ChallengeBenchmarks.analyze, called again and again on one object: the   *)
(* ScriptRunner made by __init__ records what process_directory's runs      *)
(* return, and generate_table is handed the runner's three maps.            *)

\* The problems an analyze call may be asked for.
AnalyzeProblems == {1, 2}

\* The results run_script may return for a candidate of a problem.
ResultsOf(p) ==
    IF p = 1 THEN {ResultTuple(F1c, 10, 2)}
    ELSE {ResultTuple(F2a, 100, 30), ResultTuple(F2b, 300, 45)}

\* What one analyze call has recorded by itself so far.
OwnRecords(rec, order) == [rec |-> rec, order |-> order]

\* self.script_runner = ScriptRunner(): the three maps are empty.
InitAnalyze ==
    /\ pc = "az_idle"
    /\ HarnessAtRest
    /\ LocalsAtRest
    /\ file_path = None
    /\ MonitorAtRest
    /\ ConfigAtRest
    /\ CommandAtRest
    /\ LoadingAtRest
    /\ PipingAtRest
    /\ BuilderAtRest
    /\ own = OwnRecords(Records(<<>>, <<>>, <<>>), <<>>)
    /\ analyze_calls = 0

az_frame ==
    <<iteration, pidx, lidx, pending, file_path, process, returncode,
      peak_memory, exc, cleanup_files, compile_ms, last_run, perrun, periter,
      os, table_lines, gt_calls, gt_prev, monitor, cfg, command, loading,
      piping, builder>>

\* analyze(problems_to_run, ...): process_directory is started on the
\* runner the object was constructed with.
AZ_Analyze ==
    /\ pc = "az_idle"
    /\ analyze_calls < MaxAnalyze
    /\ analyze_calls' = analyze_calls + 1
    /\ \E ps \in (SUBSET AnalyzeProblems) \ {{}} : args' = [problems |-> ps]
    /\ own' = OwnRecords(Records(<<>>, <<>>, <<>>), <<>>)
    /\ calls' = 0
    /\ result' = None
    /\ pc' = "az_walk"
    /\ UNCHANGED <<records, df, az_frame>>

\* process_directory: a run of a candidate of a requested problem returned
\* a result, and self._record_result(problem_no, result) stores it.
AZ_Record ==
    /\ pc = "az_walk"
    /\ calls < MaxRecords
    /\ \E p \in args.problems :
         \E res \in ResultsOf(p) :
            LET r == RecordResult(Now, p, res)
            IN  /\ times_taken' = r.times
                /\ peak_memory_usage' = r.mems
                /\ file_info' = r.info
                /\ key_order' = InsertKey(key_order, p)
                /\ own' = OwnRecords(RecordResult(own.rec, p, res),
                                     InsertKey(own.order, p))
                /\ result' = res
    /\ calls' = calls + 1
    /\ UNCHANGED <<pc, args, df, analyze_calls, az_frame>>

\* df = self.visualizer.generate_table(self.script_runner.file_info,
\* self.script_runner.times_taken, self.script_runner.peak_memory_usage, ...);
\* return df
AZ_Table ==
    /\ pc = "az_walk"
    /\ df' = GenerateTable(file_info, times_taken, peak_memory_usage, key_order)
    /\ pc' = "az_idle"
    /\ UNCHANGED <<records, own, args, calls, result, analyze_calls, az_frame>>

NextAnalyze == AZ_Analyze \/ AZ_Record \/ AZ_Table

SpecAnalyze == InitAnalyze /\ [][NextAnalyze]_vars

\* xs is ys with one entry appended.
OneAppended(xs, ys) ==
    /\ Len(xs) = Len(ys) + 1
    /\ SubSeq(xs, 1, Len(ys)) = ys

\* The sequence a map holds for a key, empty when it holds none.
SeqAt(m, p) == IF p \in DOMAIN m THEN m[p] ELSE <<>>

\* C26: after any sequence of _record_result calls the three maps have the
\* same keys and every key's time and memory sequences have the same length
\* of at least 1; a call appends one entry to each sequence of its problem
\* and touches nothing else.
C26_RecordsStayAligned ==
    /\ [](/\ DOMAIN times_taken = DOMAIN peak_memory_usage
          /\ DOMAIN times_taken = DOMAIN file_info
          /\ \A p \in DOMAIN times_taken :
                /\ Len(times_taken[p]) >= 1
                /\ Len(times_taken[p]) = Len(peak_memory_usage[p]))
    /\ [][\/ UNCHANGED <<times_taken, peak_memory_usage, file_info>>
          \/ \E q \in DOMAIN times_taken' :
                /\ DOMAIN times_taken' = DOMAIN times_taken \cup {q}
                /\ DOMAIN peak_memory_usage' = DOMAIN peak_memory_usage \cup {q}
                /\ OneAppended(times_taken'[q], SeqAt(times_taken, q))
                /\ OneAppended(peak_memory_usage'[q], SeqAt(peak_memory_usage, q))
                /\ \A p \in DOMAIN times_taken \ {q} :
                      /\ times_taken'[p] = times_taken[p]
                      /\ peak_memory_usage'[p] = peak_memory_usage[p]
                /\ \A p \in DOMAIN file_info :
                      p \in DOMAIN file_info' /\ file_info'[p] = file_info[p]]_vars

\* Problem 2 has two results and problem 1 one, recorded after it.
C26_Witness ==
    /\ pc = "az_walk"
    /\ key_order = <<2, 1>>
    /\ times_taken[2] = <<100, 300>>
    /\ peak_memory_usage[2] = <<30, 45>>
    /\ times_taken[1] = <<10>>
    /\ peak_memory_usage[1] = <<2>>
    /\ DOMAIN file_info = {1, 2}

\* C28: the table an analyze call returns is computed from the samples
\* collected during that call alone.
C28_TableFromThisCallOnly ==
    (pc = "az_idle" /\ analyze_calls >= 1) =>
        df = GenerateTable(own.rec.info, own.rec.times, own.rec.mems, own.order)


-----------------------------------------------------------------------------
(* run_script from Popen to the return of communicate(), next to a child    *)
(* that writes its output to the stdout pipe and then exits.  A write to a  *)
(* full pipe blocks until somebody reads.                                   *)

\* Popen(run_cmd, stdout=PIPE, stderr=PIPE) has returned: the child runs,
\* has written nothing yet, and the parent enters monitor_memory_usage.
InitPipe ==
    /\ pc = "pp_poll"
    /\ HarnessAtRest
    /\ LocalsAtRest
    /\ file_path = None
    /\ ConfigAtRest
    /\ CommandAtRest
    /\ LoadingAtRest
    /\ AnalysisAtRest
    /\ BuilderAtRest
    /\ child = "alive"
    /\ child_rss = 0
    /\ mm_process = "none"
    /\ mm_peak = 0
    /\ mm_ret = <<>>
    /\ seen = <<>>
    /\ polls = 0
    /\ pipe = 0
    /\ unwritten \in 0..MaxOutput

pp_frame ==
    <<base, cfg, child_rss, mm_process, mm_peak, mm_ret, seen, command,
      loading, analysis, builder>>

\* The child writes the next chunk of its output; the write goes through
\* only while the pipe has room.
CH_Write ==
    /\ pc \in {"pp_poll", "pp_communicate"}
    /\ child = "alive"
    /\ unwritten > 0
    /\ pipe < PipeCapacity
    /\ pipe' = pipe + 1
    /\ unwritten' = unwritten - 1
    /\ UNCHANGED <<pc, child, polls, pp_frame>>

\* The child has written all of its output and exits.
CH_Done ==
    /\ pc \in {"pp_poll", "pp_communicate"}
    /\ child = "alive"
    /\ unwritten = 0
    /\ child' = "zombie"
    /\ UNCHANGED <<pc, pipe, unwritten, polls, pp_frame>>

\* monitor_memory_usage: while process.poll() is None the resident memory is
\* read and the loop sleeps and polls again; nothing is read from the pipes.
\* The loop ends when poll() finds the child exited.
PP_Poll ==
    /\ pc = "pp_poll"
    /\ IF child = "alive"
       THEN /\ polls' = IF polls < MaxPolls THEN polls + 1 ELSE polls
            /\ UNCHANGED <<pc, child>>
       ELSE /\ child' = "reaped"
            /\ pc' = "pp_communicate"
            /\ UNCHANGED polls
    /\ UNCHANGED <<pipe, unwritten, pp_frame>>

\* psutil raises NoSuchProcess for a child that has exited, or AccessDenied:
\* monitor_memory_usage returns 0.0 and run_script goes on to communicate().
PP_Raise ==
    /\ pc = "pp_poll"
    /\ polls > 0
    /\ \E e \in {"NoSuchProcess", "AccessDenied"} :
          /\ MonitorCatches(e)
          /\ e = "NoSuchProcess" => child = "zombie"
    /\ pc' = "pp_communicate"
    /\ UNCHANGED <<child, pipe, unwritten, polls, pp_frame>>

\* stdout, stderr = process.communicate(): what is in the pipes is read.
PP_Read ==
    /\ pc = "pp_communicate"
    /\ pipe > 0
    /\ pipe' = 0
    /\ UNCHANGED <<pc, child, unwritten, polls, pp_frame>>

\* communicate() returns at end of file, with the child waited for.
PP_Return ==
    /\ pc = "pp_communicate"
    /\ child # "alive"
    /\ pipe = 0
    /\ child' = "reaped"
    /\ pc' = "pp_returned"
    /\ UNCHANGED <<pipe, unwritten, polls, pp_frame>>

NextPipe == CH_Write \/ CH_Done \/ PP_Poll \/ PP_Raise \/ PP_Read \/ PP_Return

SpecPipe == InitPipe /\ [][NextPipe]_vars

\* The child cannot go on before somebody reads the pipe.
ChildBlocked ==
    /\ child = "alive"
    /\ unwritten > 0
    /\ pipe = PipeCapacity

\* C27: in no reachable state is the child blocked writing to a full pipe
\* while the parent keeps polling for its exit.
C27_NeverBlockedOnFullPipe == ~(ChildBlocked /\ pc = "pp_poll")


-----------------------------------------------------------------------------
(* ScriptBuilder.create_files and Setup_C.create_c_script over a problem    *)
(* folder that may hold files already.  A file is its name, a pair of       *)
(* strings, and its content: "user" for what somebody wrote, "" for an      *)
(* empty file, "template" for a filled-in template.                         *)

\* Language_Support.TEMPLATE_PATHS: the extension of a language's template.
TEMPLATE_PATHS ==
    (<<"c">> :> "c") @@ (<<"j","s">> :> "js") @@ (<<"g","o">> :> "go")
    @@ (<<"c","p","p">> :> "cpp") @@ (<<"t","x","t">> :> "txt")
    @@ (<<"r","u","b","y">> :> "rb") @@ (<<"r","u","s","t">> :> "rs")
    @@ (<<"j","a","v","a">> :> "java") @@ (<<"j","u","l","i","a">> :> "jl")
    @@ (<<"p","y","t","h","o","n">> :> "py")
    @@ (<<"h","a","s","k","e","l","l">> :> "hs")

\* The languages create_files is called with.
BuildLanguages ==
    { <<"P","y","t","h","o","n">>, <<"c">>, <<"p","y">>, <<"c","o","b","o","l">> }

\* suffix = "" if txt_files <= 1 else f"_p{i}"
SuffixOf(txt_files, i) ==
    IF txt_files <= 1 THEN "" ELSE <<"_p1", "_p2", "_p3", "_p4">>[i]

\* _create_text_files: the names of the max(1, txt_files) input files.
TextNames(txt_files) ==
    {<<"input", SuffixOf(txt_files, i)>> : i \in 1..Max(1, txt_files)}

\* get_solution_filename(prob_no, ext)
ScriptName(ext) == <<"solution", ext>>

\* A test that finds no file.
ExistsNever(files, name) == FALSE

\* file_path.exists() / os.path.exists(script_filepath)
Exists(files, name) == name \in DOMAIN files

\* write_text(content) on the files of names that are not there yet.
CreateMissing(files, names, content) ==
    [n \in DOMAIN files \cup names |->
        IF Exists(files, n) THEN files[n] ELSE content]

\* What may be in the problem folder before the first call.
FilesBefore ==
    { [n \in ns |-> "user"] :
        ns \in SUBSET {<<"input", "">>, <<"input", "_p1">>,
                       ScriptName("py"), ScriptName("c")} }

InitBuilder ==
    /\ pc = "sb_call"
    /\ HarnessAtRest
    /\ LocalsAtRest
    /\ file_path = None
    /\ MonitorAtRest
    /\ ConfigAtRest
    /\ CommandAtRest
    /\ LoadingAtRest
    /\ AnalysisAtRest
    /\ PipingAtRest
    /\ \E folder \in BOOLEAN, files \in FilesBefore :
          /\ ~folder => files = <<>>
          /\ fs = [folder |-> folder, files |-> files]
    /\ sb_args \in [builder : {"ScriptBuilder", "Setup_C"},
                    language : BuildLanguages,
                    txt_files : 0..MaxTxt,
                    templates : BOOLEAN]
    /\ sb_args.builder = "Setup_C" =>
           (sb_args.language = <<"c">> /\ sb_args.txt_files = 0 /\ sb_args.templates)
    /\ sb_error = "none"
    /\ sb_calls = 0
    /\ sb_prev = None

sb_frame == <<base, monitor, cfg, command, loading, analysis, piping, sb_args>>

\* create_files: ValueError for a language without template; then the
\* problem folder and the input text files are created where missing; then
\* _script_properties reads the template (FileNotFoundError when it is not
\* there) and the script is written unless a file of its name exists.
SB_CreateFiles ==
    /\ pc = "sb_call"
    /\ sb_args.builder = "ScriptBuilder"
    /\ sb_calls < MaxBuilds
    /\ LET language == Lower(sb_args.language)
           texts == CreateMissing(fs.files, TextNames(sb_args.txt_files), "")
           script == ScriptName(TEMPLATE_PATHS[language])
       IN  IF language \notin DOMAIN TEMPLATE_PATHS
           THEN /\ sb_error' = "ValueError"
                /\ fs' = fs
           ELSE IF ~sb_args.templates
           THEN /\ sb_error' = "FileNotFoundError"
                /\ fs' = [folder |-> TRUE, files |-> texts]
           ELSE /\ sb_error' = "none"
                /\ fs' = [folder |-> TRUE,
                          files |-> IF Exists(texts, script) THEN texts
                                    ELSE CreateMissing(texts, {script}, "template")]
    /\ sb_prev' = fs
    /\ sb_calls' = sb_calls + 1
    /\ UNCHANGED <<pc, sb_frame>>

\* create_c_script: os.makedirs(challenge_dir, exist_ok=True), and the C
\* script is written if os.path.exists finds no file of its name.
SC_CreateScript ==
    /\ pc = "sb_call"
    /\ sb_args.builder = "Setup_C"
    /\ sb_calls < MaxBuilds
    /\ fs' = [folder |-> TRUE,
              files |-> IF Exists(fs.files, ScriptName("c")) THEN fs.files
                        ELSE CreateMissing(fs.files, {ScriptName("c")}, "template")]
    /\ sb_error' = "none"
    /\ sb_prev' = fs
    /\ sb_calls' = sb_calls + 1
    /\ UNCHANGED <<pc, sb_frame>>

NextBuilder == SB_CreateFiles \/ SC_CreateScript

SpecBuilder == InitBuilder /\ [][NextBuilder]_vars

\* C29: a call keeps the content of every file that was there and removes
\* no folder; a call after the first with the same arguments leaves the
\* file system as it found it; a language without template ends in
\* ValueError with the file system as it was.
C29_ExistingFilesKept ==
    sb_calls >= 1 =>
        /\ sb_prev.folder => fs.folder
        /\ \A n \in DOMAIN sb_prev.files :
              n \in DOMAIN fs.files /\ fs.files[n] = sb_prev.files[n]
        /\ sb_calls >= 2 => fs = sb_prev
        /\ (sb_args.builder = "ScriptBuilder"
               /\ Lower(sb_args.language) \notin DOMAIN TEMPLATE_PATHS)
              => (sb_error = "ValueError" /\ fs = sb_prev)

\* create_files("Python", txt_files=2) was called twice on a folder that held
\* the user's solution and first input file: both kept their content, the
\* second input file was created empty, and the second call changed nothing.
C29_Witness ==
    /\ sb_calls = 2
    /\ sb_args.builder = "ScriptBuilder"
    /\ sb_args.language = <<"P","y","t","h","o","n">>
    /\ sb_args.txt_files = 2
    /\ sb_error = "none"
    /\ DOMAIN fs.files = {<<"input", "_p1">>, <<"input", "_p2">>, ScriptName("py")}
    /\ fs.files[ScriptName("py")] = "user"
    /\ fs.files[<<"input", "_p1">>] = "user"
    /\ fs.files[<<"input", "_p2">>] = ""

\* create_files("cobol") on a challenge directory without the problem
\* folder: ValueError, and the folder is still not there.
C29_WitnessNoTemplate ==
    /\ sb_calls = 1
    /\ sb_args.language = <<"c","o","b","o","l">>
    /\ sb_error = "ValueError"
    /\ ~fs.folder


-----------------------------------------------------------------------------
(* Claims about the supported languages.                                    *)

\* The extensions, with their dot, of the supported languages.
SupportedExts == {<<".">> \o supported_languages[l] : l \in DOMAIN supported_languages}

\* C30: supported_languages is the sequence of the ten supported
\* extensions, each with an entry in the registry; the language loop of a
\* problem visits them one after the other, each once, and no candidate with
\* a supported extension is turned away as an unsupported file type.
C30_SupportedLanguagesRegistered ==
    /\ [](/\ supported_languages =
                << <<"p","y">>, <<"j","l">>, <<"r","b">>, <<"j","s">>, <<"c">>,
                   <<"r","s">>, <<"j","a","v","a">>, <<"c","p","p">>,
                   <<"h","s">>, <<"g","o">> >>
          /\ SupportedExts \subseteq language_config
          /\ lidx \in 0..Len(supported_languages))
    /\ [][(pc = "pd_prob" /\ pc' = "pd_lang") => lidx' = 0]_vars
    /\ [][(pc = "pd_lang" /\ pc' = "pd_file")
              => /\ lidx' = lidx + 1
                 /\ pending' = Glob(problem_no, supported_languages[lidx'])]_vars
    /\ [][(pc = "pd_lang" /\ pc' = "pd_prob") => lidx = Len(supported_languages)]_vars
    /\ [][lidx' # lidx => (pc = "pd_lang" \/ pc = "pd_prob")]_vars
    /\ [][(pc = "rs_classify" /\ pc' = "rs_return"
              /\ ExtensionOf(file_path) \in SupportedExts)
              => EarlySkip(file_path)]_vars

\* The language loop of problem 1 has ended after its tenth language, and
\* the candidate 1.c, of a supported extension, was run and recorded.
C30_Witness ==
    /\ pc = "pd_prob"
    /\ iteration = 1
    /\ pidx = 1
    /\ lidx = 10
    /\ 1 \in DOMAIN file_info
    /\ file_info[1][1] = <<".","c">>
    /\ last_run = <<1, 1, 5, 1>>

====
